---- MODULE Spec2Model ----
(***************************************************************************)
(* Quarterly insider-trade ingestion: the trades table with its UNIQUE     *)
(* index, the sync_log table, the per-quarter sync (syncQuarter) of the    *)
(* in-process server and of sync-worker.js, the orchestrating loops        *)
(* (runSync / the worker's main loop), the midnight re-sync tick and the   *)
(* daily worker's inserts into the same table. The functions the sync is   *)
(* built from are also evaluated on their own: parseDate (ParseDateSpec),  *)
(* the date given to a transaction row (TradeDateSpec) and the archive     *)
(* scanner extractOne (ExtractSpec).                                       *)
(***************************************************************************)
EXTENDS Integers, Sequences, FiniteSets, Bags, TLC

\* ------------------------------------------------------------------ bounds
\* Number of calendar quarters tracked; quarter i is "i quarters back".
NumQuarters == 2
\* Rows per insert batch in sync-worker.js (500 in the code, scaled down).
WorkerBatch == 2
\* Rows per insert batch in the in-process server (1000 in the code, scaled).
InProcBatch == 3

Quarters == 1..NumQuarters

\* ------------------------------------------------------------- trade rows
\* One row of the trades table: the twelve columns of the INSERT statement.
Trade(acc, ins, date, type, qty, owned) ==
  [ticker |-> "TCK", company |-> "Co", insider |-> ins, title |-> "CEO",
   trade_date |-> date, filing_date |-> "2026-01-09", type |-> type,
   qty |-> qty, price |-> 2, value |-> 2 * qty, owned |-> owned,
   accession |-> acc]

\* UNIQUE(accession, insider, trade_date, type, qty)
Key(r) == <<r.accession, r.insider, r.trade_date, r.type, r.qty>>

R1  == Trade("acc-1", "Ann", "2026-01-05", "P", 100, 500)
\* same uniqueness key as R1, different owned-following-transaction
R1b == Trade("acc-1", "Ann", "2026-01-05", "P", 100, 700)
R2  == Trade("acc-1", "Ann", "2026-01-05", "P", 250, 750)
R3  == Trade("acc-2", "Bob", "2026-01-06", "S", 100, 0)
R4  == Trade("acc-3", "Cy",  "2026-01-07", "A", 40, 40)

\* ---------------------------------------------------------------- archives
\* A table of a quarterly ZIP as extractOne sees it: found and inflatable
\* ("ok", with the trades its rows normalise to, in line order), not in the
\* buffer ("absent": extractOne returns null) or found with a compressed
\* span that does not inflate ("malformed": inflateRawSync throws).
Table(rows)  == [state |-> "ok", rows |-> rows]
AbsentTable  == [state |-> "absent", rows |-> <<>>]
BadTable     == [state |-> "malformed", rows |-> <<>>]

Archives ==
  { [sub |-> "ok", owner |-> "ok", nd |-> Table(<<R1, R1b, R2>>), d |-> Table(<<R3>>)],
    [sub |-> "ok", owner |-> "ok", nd |-> Table(<<R3, R1>>),      d |-> AbsentTable],
    [sub |-> "ok", owner |-> "ok", nd |-> Table(<<R2>>),          d |-> BadTable],
    [sub |-> "absent", owner |-> "ok", nd |-> Table(<<R3>>),      d |-> Table(<<>>)] }

\* The archives of the older quarters are final and hold the two reference
\* tables; only the archive of the last quarter is still republished.
OldArchives == {a \in Archives : a.sub = "ok" /\ a.d.state # "absent"}

\* Filings the daily worker may parse: the rows of one Form 4.
DailyFilings == { <<R1b>>, <<R4, R4>> }

VARIABLES
  deploy,    \* "inproc": server with in-process sync; "worker": server spawning sync-worker.js
  archive,   \* archive[q]: the ZIP published for quarter q
  store,     \* the trades table: a bag of rows
  syncLog,   \* the sync_log table: quarter -> rows, for the quarters that have an entry
  pc,        \* "idle", or the position of the running sync inside syncQuarter
  running,   \* syncState.running / syncRunning: the flag runSync tests and sets
  force,     \* req.query.force==='1' of the request that started the running sync
  numQ,      \* the numQ argument of the running run
  idx,       \* index in getQuarters(numQ) of the quarter being processed
  pos,       \* rows of the current transaction table already handed to doInsert
  count,     \* count of processTransactions / processTransLines
  inserted,  \* inserted (in-process) / ndCount + dCount (worker)
  inv,       \* the current (or last) syncQuarter invocation: its zipBuf, and what it did
  runHist,   \* history: what the current (or last) run did
  partial,   \* history: quarters whose last invocation committed a batch and ended before the log write
  pdFn,      \* parseDate under evaluation: "sync" (server.js), "daily" (daily-worker.js), or "none"
  pdArg,     \* its argument s, a string as the sequence of its characters
  pdRet,     \* its return value, Unset before the call
  row,       \* a transaction row with its submission: TRANS_DATE, PERIOD_OF_REPORT, FILEDATE
  subEntry,  \* subMap[acc] of that row: [ticker, filed, period], NoEntry before step 1
  tradeDate, \* the date processTransactions gives the row, Unset before step 3
  zipBuf,    \* the buffer extractOne scans, a sequence of bytes
  target,    \* targetPrefix of extractOne, a sequence of character codes
  exPos,     \* pos of extractOne
  exRet,     \* the outcome of extractOne: "running" inside the loop, "none" outside a call
  normPc,    \* the step of syncQuarter a row is followed through: "sub", "owner", "trans", "done"; "none" outside
  subLines,  \* the rows tsvRows yields for the SUBMISSION table
  ownerLines, \* the rows tsvRows yields for the REPORTINGOWNER table
  transTable, \* the table the transaction row is from: "nd" or "d"
  transRow,  \* the transaction row t
  subMap,    \* subMap: accession -> entry
  ownerMap,  \* ownerMap: accession -> entry
  emitted,   \* the tuples pushed to the batch for the row: none or one
  today,     \* new Date(): [year, month]
  logKeys,   \* the quarter keys <<year, q>> that have a sync_log entry
  lastOp,    \* history: what the last step of the calendar did
  mem,       \* the line arrays syncQuarter holds: [pc, tables, held]
  tsv,       \* a call of tsvRows: [pc, lines, i, out, prev]
  throttle,  \* the daily worker's fetch queue: [queue, active, timers, inflight, ...]
  daily      \* the daily worker's run over its dates: [pc, ...] and the daily_log table

\* The state of the quarterly sync and of the daily worker's inserts.
syncVars == <<deploy, archive, store, syncLog, pc, running, force, numQ, idx, pos,
              count, inserted, inv, runHist, partial>>

\* The arguments and results of the functions evaluated on their own.
pdVars == <<pdFn, pdArg, pdRet>>
rowVars == <<row, subEntry, tradeDate>>
exVars == <<zipBuf, target, exPos, exRet>>
normVars == <<normPc, subLines, ownerLines, transTable, transRow, subMap, ownerMap, emitted>>
calVars == <<today, logKeys, lastOp>>
workVars == <<mem, tsv, throttle, daily>>

vars == <<syncVars, pdVars, rowVars, exVars, normVars, calVars, workVars>>

\* null, and the value of a variable that has not been assigned, among strings
\* that are sequences of characters.
Null == <<"null">>
Unset == <<"unset">>

\* No call of parseDate, no row and no call of extractOne are under evaluation.
NoParseDate == pdFn = "none" /\ pdArg = <<>> /\ pdRet = Unset
NoEntry == [ticker |-> Unset, filed |-> Unset, period |-> Unset]
NoRow == row = <<>> /\ subEntry = NoEntry /\ tradeDate = Unset
NoExtract == zipBuf = <<>> /\ target = <<>> /\ exPos = 0 /\ exRet = "none"
NoNormalize ==
  /\ normPc = "none"
  /\ subLines = <<>>
  /\ ownerLines = <<>>
  /\ transTable = "none"
  /\ transRow = <<>>
  /\ subMap = <<>>
  /\ ownerMap = <<>>
  /\ emitted = <<>>
MemIdle == [pc |-> <<>>, tables |-> <<>>, held |-> <<>>]
TsvIdle == [pc |-> "none", lines |-> <<>>, i |-> 0, out |-> <<>>, prev |-> <<>>]
ThrottleIdle ==
  [queue |-> <<>>, active |-> 0, timers |-> {}, inflight |-> {}, settled |-> {},
   settles |-> 0, dequeued |-> <<>>, enqueued |-> 0, waited |-> {}]
DailyIdle ==
  [pc |-> "none", date |-> 0, filings |-> <<>>, log |-> {}, recorded |-> {}, skipped |-> {}]
NoWork == mem = MemIdle /\ tsv = TsvIdle /\ throttle = ThrottleIdle /\ daily = DailyIdle
NoOp == [op |-> "none", deleted |-> {}]
NoCalendar == today = <<>> /\ logKeys = {} /\ lastOp = NoOp

\* ------------------------------------------------------------ the tables
\* SELECT 1 FROM sync_log WHERE quarter = ?
Synced(q) == q \in DOMAIN syncLog

\* The trades table is a bag of rows: the id column only tells apart rows
\* that are equal in every other column.
HasKey(s, k) == \E x \in BagToSet(s) : Key(x) = k

NumRows(s) == BagCardinality(s)

InsertOrReplace(s, r) ==
  [x \in {y \in BagToSet(s) : Key(y) # Key(r)} |-> s[x]] (+) SetToBag({r})

InsertAlways(s, r) == s (+) SetToBag({r})

\* insertStmt.run(r): INSERT OR IGNORE INTO trades ... under the UNIQUE index
InsertOrIgnore(s, r) == IF HasKey(s, Key(r)) THEN s ELSE s (+) SetToBag({r})

RECURSIVE DoInsert(_, _)
\* doInsert = db.transaction(batch => { for (const r of batch) insertStmt.run(r) })
DoInsert(s, batch) ==
  IF batch = <<>> THEN s
  ELSE DoInsert(InsertOrIgnore(s, Head(batch)), Tail(batch))

\* getQuarters(n): the n quarters before the current one, most recent first
getQuarters(n) == [i \in 1..n |-> i]

\* if (batch.length >= 500) / if (batch.length >= 1000)
BatchLimit == IF deploy = "inproc" THEN InProcBatch ELSE WorkerBatch

Min(a, b) == IF a < b THEN a ELSE b

NextBatchDropTail(rows, p) ==
  IF Len(rows) - p >= BatchLimit THEN SubSeq(rows, p + 1, p + BatchLimit) ELSE <<>>

\* The rows pushed between two doInsert calls: a full batch, or the rest of
\* the table flushed by "if (batch.length) doInsert(batch)".
NextBatch(rows, p) == SubSeq(rows, p + 1, Min(p + BatchLimit, Len(rows)))

ShouldSkipNever(q, f) == FALSE

\* in-process: if (!force && SELECT 1 ...) return;  worker: if (already) return;
ShouldSkip(q, f) == IF deploy = "inproc" THEN ~f /\ Synced(q) ELSE Synced(q)

FetchOkAlways(outcome) == TRUE

\* if (status !== 200) ...: only a 200 response goes on to the archive; a
\* rejected get() (network error, timeout) never reaches the test.
FetchOk(outcome) == outcome = "ok"

TransactionNoRollback(s, batch, wr) ==
  IF wr = "ok" THEN DoInsert(s, batch)
  ELSE DoInsert(s, SubSeq(batch, 1, Len(batch) - 1))

\* db.transaction(fn)(batch): BEGIN, the inserts, COMMIT; when a statement
\* throws (wr = "error") ROLLBACK undoes the rows already run and the error
\* is thrown again.
Transaction(s, batch, wr) == IF wr = "ok" THEN DoInsert(s, batch) ELSE s

NextPcLogEarly(stage) ==
  CASE stage = "fetch" -> "sub"
    [] stage = "sub"   -> "owner"
    [] stage = "owner" -> "nd"
    [] stage = "nd"    -> "log"
    [] stage = "d"     -> "log"

NextPcOwnerLate(stage) ==
  CASE stage = "fetch" -> "sub"
    [] stage = "sub"   -> "nd"
    [] stage = "nd"    -> "owner"
    [] stage = "owner" -> "d"
    [] stage = "d"     -> "log"

\* The order of the steps of syncQuarter.
NextPc(stage) ==
  CASE stage = "fetch" -> "sub"
    [] stage = "sub"   -> "owner"
    [] stage = "owner" -> "nd"
    [] stage = "nd"    -> "d"
    [] stage = "d"     -> "log"

AllStages == <<"fetch", "sub", "owner", "nd", "d">>

\* ------------------------------------------------------------------- Init
NoZip == [sub |-> "absent", owner |-> "absent", nd |-> AbsentTable, d |-> AbsentTable]

\* zipBuf is the body the invocation downloaded and http the response it came
\* with; the other fields are history.
NoInv == [q |-> 0, wasDone |-> FALSE, force |-> FALSE, fetches |-> 0,
          stmts |-> 0, newRows |-> 0, logWrites |-> 0, stages |-> <<>>,
          rows |-> 0, status |-> "none", fail |-> "none", http |-> "none",
          zipBuf |-> NoZip]

\* History of a run: deleted holds the quarters whose sync_log entry was
\* removed by the DELETE of the scheduler tick (or startup re-sync) that
\* started the run.
NoRun == [numQ |-> 0, attempted |-> {}, fails |-> {}, deleted |-> {}]

Init ==
  /\ deploy \in {"inproc", "worker"}
  /\ archive \in {f \in [Quarters -> Archives] :
                    \A q \in Quarters \ {getQuarters(1)[1]} : f[q] \in OldArchives}
  /\ store = EmptyBag
  /\ syncLog = <<>>
  /\ pc = "idle"
  /\ running = FALSE
  /\ force = FALSE
  /\ numQ = 1
  /\ idx = 1
  /\ pos = 0
  /\ count = 0
  /\ inserted = 0
  /\ inv = NoInv
  /\ runHist = NoRun
  /\ partial = {}
  /\ NoParseDate
  /\ NoRow
  /\ NoExtract
  /\ NoNormalize
  /\ NoCalendar
  /\ NoWork

\* No sync is running and the tables are empty: the state of the sync while a
\* function is evaluated on its own.
SyncParked ==
  /\ deploy = "worker"
  /\ archive = [q \in Quarters |-> CHOOSE a \in OldArchives : TRUE]
  /\ store = EmptyBag
  /\ syncLog = <<>>
  /\ pc = "idle"
  /\ running = FALSE
  /\ force = FALSE
  /\ numQ = 1
  /\ idx = 1
  /\ pos = 0
  /\ count = 0
  /\ inserted = 0
  /\ inv = NoInv
  /\ runHist = NoRun
  /\ partial = {}

CurQ == getQuarters(numQ)[idx]

\* ------------------------------------------------------------ run control
EndRunFlagStays ==
  /\ pc' = "idle"
  /\ running' = running
  /\ force' = FALSE
  /\ numQ' = 1
  /\ idx' = 1
  /\ pos' = 0
  /\ count' = 0
  /\ inserted' = 0

\* Leaving the run: syncState.running = false / the worker exits.
EndRun ==
  /\ pc' = "idle"
  /\ running' = FALSE
  /\ force' = FALSE
  /\ numQ' = 1
  /\ idx' = 1
  /\ pos' = 0
  /\ count' = 0
  /\ inserted' = 0

\* The for loop over getQuarters(numQ): the next quarter, or the end of the run.
Advance ==
  IF idx < numQ
    THEN /\ pc' = "check"
         /\ idx' = idx + 1
         /\ pos' = 0
         /\ count' = 0
         /\ inserted' = 0
         /\ UNCHANGED <<running, force, numQ>>
    ELSE EndRun

\* History: the invocation h ends before its log write with a batch committed.
Interrupted(h) ==
  IF h.stmts > 0 /\ h.zipBuf = archive[h.q] THEN {h.q} ELSE {}

ThrowResetLog(kind) ==
  /\ store' = store
  /\ syncLog' = <<>>
  /\ inv' = [inv EXCEPT !.status = "failed", !.fail = kind]
  /\ runHist' = [runHist EXCEPT !.fails = @ \cup {kind}]
  /\ partial' = partial \cup Interrupted(inv)
  /\ EndRun

\* An exception leaves syncQuarter with the trades table as s. In-process it
\* reaches the catch of runSync, around the whole loop; in the worker nothing
\* catches it and the process ends.
Fail(kind, s) ==
  /\ store' = s
  /\ syncLog' = syncLog
  /\ inv' = [inv EXCEPT !.status = "failed", !.fail = kind]
  /\ runHist' = [runHist EXCEPT !.fails = @ \cup {kind}]
  /\ partial' = partial \cup Interrupted(inv)
  /\ EndRun

\* An exception thrown outside doInsert: the tables are left as they are.
Throw(kind) == Fail(kind, store)

\* History: a quarter stops counting as interrupted once the invocation that
\* completed it has been looked at.
Pending == IF inv.status = "ok" THEN partial \ {inv.q} ELSE partial

AlreadyRunningNever == FALSE

\* if (syncState.running) { slog('already running'); return; }
\* if (syncRunning) { slog('sync already running'); return; }
AlreadyRunning == running

\* The force argument syncQuarter receives: the in-process route passes
\* req.query.force==='1' to runSync; the server that spawns sync-worker.js
\* calls runSync(numQ) and the worker's syncQuarter has no such parameter.
PassedForce(f) == IF deploy = "inproc" THEN f ELSE FALSE

\* runSync(numQ, force) from GET /api/sync, startup or the scheduler, past its
\* test of the running flag.
StartRun(n, f, del) ==
  /\ pc' = "check"
  /\ running' = TRUE
  /\ force' = f
  /\ numQ' = n
  /\ idx' = 1
  /\ pos' = 0
  /\ count' = 0
  /\ inserted' = 0
  /\ runHist' = [numQ |-> n, attempted |-> {}, fails |-> {}, deleted |-> del]
  /\ inv' = NoInv
  /\ partial' = Pending

\* GET /api/sync?quarters=n&force=1|0 (f: the request carries force=1)
TriggerSync(n, f) ==
  /\ ~AlreadyRunning
  /\ StartRun(n, f, {})
  /\ UNCHANGED <<deploy, archive, store, syncLog>>
  /\ UNCHANGED <<pdVars, rowVars, exVars, normVars, calVars, workVars>>

\* setInterval: DELETE FROM sync_log WHERE quarter = <last quarter>; runSync(1)
SchedulerTick ==
  /\ syncLog' = [q \in DOMAIN syncLog \ {getQuarters(1)[1]} |-> syncLog[q]]
  /\ IF ~AlreadyRunning
       THEN StartRun(1, FALSE, DOMAIN syncLog \ DOMAIN syncLog')
       ELSE UNCHANGED <<pc, running, force, numQ, idx, pos, count, inserted, runHist,
                        inv, partial>>
  /\ UNCHANGED <<deploy, archive, store>>
  /\ UNCHANGED <<pdVars, rowVars, exVars, normVars, calVars, workVars>>

\* --------------------------------------------------------------- syncQuarter
StageDone(stage) == [inv EXCEPT !.stages = Append(@, stage)]

\* The head of syncQuarter: the sync_log lookup and the early return.
QCheck ==
  /\ pc = "check"
  /\ runHist' = [runHist EXCEPT !.attempted = @ \cup {idx}]
  /\ IF ShouldSkip(CurQ, force)
       THEN /\ inv' = [NoInv EXCEPT !.q = CurQ, !.wasDone = Synced(CurQ),
                                    !.force = PassedForce(force),
                                    !.status = "skipped"]
            /\ Advance
       ELSE /\ inv' = [NoInv EXCEPT !.q = CurQ, !.wasDone = Synced(CurQ),
                                    !.force = PassedForce(force),
                                    !.status = "running"]
            /\ pc' = "fetch"
            /\ UNCHANGED <<running, force, numQ, idx, pos, count, inserted>>
  /\ partial' = Pending
  /\ UNCHANGED <<deploy, archive, store, syncLog>>
  /\ UNCHANGED <<pdVars, rowVars, exVars, normVars, calVars, workVars>>

\* await get(url): status 200 ("ok"), another status ("http"), or the
\* promise rejects on a network error or the timeout ("neterr").
QFetch(outcome) ==
  /\ pc = "fetch"
  /\ UNCHANGED <<deploy, archive, pdVars, rowVars, exVars, normVars, calVars, workVars>>
  /\ CASE FetchOk(outcome) ->
            /\ inv' = [StageDone("fetch") EXCEPT !.fetches = @ + 1,
                                                 !.http = outcome,
                                                 !.zipBuf = archive[CurQ]]
            /\ pc' = NextPc("fetch")
            /\ UNCHANGED <<store, syncLog, running, force, numQ, idx, pos, count,
                           inserted, runHist, partial>>
       [] outcome = "http" /\ deploy = "worker" ->
            \* log(`HTTP ${status}, skipping`); return;
            /\ inv' = [inv EXCEPT !.fetches = @ + 1, !.status = "failed",
                                  !.fail = "fetch"]
            /\ runHist' = [runHist EXCEPT !.fails = @ \cup {"fetch"}]
            /\ Advance
            /\ UNCHANGED <<store, syncLog, partial>>
       [] OTHER ->
            \* throw new Error(`HTTP ${status}`), or the rejection itself
            Throw("fetch")

\* Step 1: subLines = extractOne(zipBuf, 'SUBMISSION'); ...; subLines.length = 0
QSubmission ==
  /\ pc = "sub"
  /\ UNCHANGED <<deploy, archive, pdVars, rowVars, exVars, normVars, calVars, workVars>>
  /\ IF inv.zipBuf.sub = "ok"
       THEN /\ inv' = StageDone("sub")
            /\ pc' = NextPc("sub")
            /\ UNCHANGED <<store, syncLog, running, force, numQ, idx, pos, count,
                           inserted, runHist, partial>>
       ELSE Throw("absent")

\* Step 2: ownerLines = extractOne(zipBuf, 'REPORTINGOWNER'); ...; ownerLines.length = 0
QOwner ==
  /\ pc = "owner"
  /\ UNCHANGED <<deploy, archive, pdVars, rowVars, exVars, normVars, calVars, workVars>>
  /\ IF inv.zipBuf.owner = "ok"
       THEN /\ inv' = StageDone("owner")
            /\ pc' = NextPc("owner")
            /\ UNCHANGED <<store, syncLog, running, force, numQ, idx, pos, count,
                           inserted, runHist, partial>>
       ELSE Throw("absent")

\* The end of processTransactions / processTransLines for table t, having
\* counted c rows: inserted += count, and on to the next step.
FinishTable(t, c, h) ==
  /\ inv' = [h EXCEPT !.stages = Append(@, t)]
  /\ inserted' = inserted + c
  /\ pc' = NextPc(t)
  /\ pos' = 0
  /\ count' = 0
  /\ UNCHANGED <<running, force, numQ, idx, runHist, partial>>

\* Step 3, one doInsert at a time, for t = "nd" (NONDERIV_TRANS) and
\* t = "d" (DERIV_TRANS). wr is the outcome of the store for this batch.
QTable(t, wr) ==
  /\ pc = t
  /\ UNCHANGED <<deploy, archive, pdVars, rowVars, exVars, normVars, calVars, workVars>>
  /\ LET tab   == inv.zipBuf[t]
         batch == NextBatch(tab.rows, pos)
         after == Transaction(store, batch, wr)
         h     == [inv EXCEPT !.stmts = @ + Len(batch),
                              !.newRows = @ + NumRows(after) - NumRows(store)]
     IN CASE tab.state = "malformed" ->
               \* inflateRawSync throws inside extractOne
               wr = "ok" /\ Throw("malformed")
          [] tab.state = "absent" /\ deploy = "worker" ->
               \* if (!lines) { log(`${prefix}: not found`); return 0; }
               /\ wr = "ok"
               /\ FinishTable(t, 0, inv)
               /\ UNCHANGED <<store, syncLog>>
          [] tab.state = "absent" /\ deploy = "inproc" ->
               \* processTransLines(null) returns 0, then ndLines.length = 0 throws
               wr = "ok" /\ Throw("absent")
          [] tab.state = "ok" /\ batch = <<>> ->
               /\ wr = "ok"
               /\ FinishTable(t, count, inv)
               /\ UNCHANGED <<store, syncLog>>
          [] tab.state = "ok" /\ batch # <<>> /\ wr = "error" ->
               \* the error of the failed statement propagates out of doInsert
               Fail("write", after)
          [] OTHER ->
               /\ store' = after
               /\ syncLog' = syncLog
               /\ IF pos + Len(batch) = Len(tab.rows)
                    THEN FinishTable(t, count + Len(batch), h)
                    ELSE /\ inv' = h
                         /\ pos' = pos + Len(batch)
                         /\ count' = count + Len(batch)
                         /\ UNCHANGED <<pc, running, force, numQ, idx, inserted,
                                        runHist, partial>>

\* INSERT OR REPLACE INTO sync_log (quarter, rows) VALUES (key, inserted)
QLog(wr) ==
  /\ pc = "log"
  /\ UNCHANGED <<deploy, archive, pdVars, rowVars, exVars, normVars, calVars, workVars>>
  /\ IF wr = "ok"
       THEN /\ syncLog' = (CurQ :> inserted) @@ syncLog
            /\ inv' = [inv EXCEPT !.logWrites = @ + 1, !.rows = inserted,
                                  !.status = "ok"]
            /\ Advance
            /\ UNCHANGED <<store, runHist, partial>>
       ELSE Throw("write")

\* The process is killed in the middle of a run (worker.on('exit') sees it).
Crash ==
  /\ pc # "idle"
  /\ EndRun
  /\ IF pc = "check"
       THEN UNCHANGED <<inv, partial>>
       ELSE /\ inv' = [inv EXCEPT !.status = "crashed"]
            /\ partial' = partial \cup Interrupted(inv)
  /\ runHist' = [runHist EXCEPT !.fails = @ \cup {"crash"}]
  /\ UNCHANGED <<deploy, archive, store, syncLog>>
  /\ UNCHANGED <<pdVars, rowVars, exVars, normVars, calVars, workVars>>

\* daily-worker.js: doInsert(rows) for the rows of one fetched Form 4.
DailyInsert(f) ==
  /\ deploy = "worker"
  /\ store' = Transaction(store, f, "ok")
  /\ UNCHANGED <<deploy, archive, syncLog, pc, running, force, numQ, idx, pos, count,
                 inserted, inv, runHist, partial>>
  /\ UNCHANGED <<pdVars, rowVars, exVars, normVars, calVars, workVars>>

\* The publisher replaces the archive of the last quarter (late or amended
\* filings), which is why the scheduler re-syncs that quarter.
ArchiveUpdate(a) ==
  /\ archive[getQuarters(1)[1]] # a
  /\ archive' = [archive EXCEPT ![getQuarters(1)[1]] = a]
  /\ partial' = partial \ {getQuarters(1)[1]}
  /\ UNCHANGED <<deploy, store, syncLog, pc, running, force, numQ, idx, pos, count,
                 inserted, inv, runHist>>
  /\ UNCHANGED <<pdVars, rowVars, exVars, normVars, calVars, workVars>>

Next ==
  \/ \E n \in Quarters, f \in BOOLEAN : TriggerSync(n, f)
  \/ SchedulerTick
  \/ QCheck
  \/ \E o \in {"ok", "http", "neterr"} : QFetch(o)
  \/ QSubmission
  \/ QOwner
  \/ \E t \in {"nd", "d"}, wr \in {"ok", "error"} : QTable(t, wr)
  \/ \E wr \in {"ok", "error"} : QLog(wr)
  \/ Crash
  \/ \E f \in DailyFilings : DailyInsert(f)
  \/ \E a \in Archives : ArchiveUpdate(a)

Spec == Init /\ [][Next]_vars

\* ---------------------------------------------------------------- parseDate
\* Strings are sequences of one-character strings.
Digits == <<"0", "1", "2", "3", "4", "5", "6", "7", "8", "9">>
UpperCase == <<"A", "B", "C", "D", "E", "F", "G", "H", "I", "J", "K", "L", "M",
               "N", "O", "P", "Q", "R", "S", "T", "U", "V", "W", "X", "Y", "Z">>
LowerCase == <<"a", "b", "c", "d", "e", "f", "g", "h", "i", "j", "k", "l", "m",
               "n", "o", "p", "q", "r", "s", "t", "u", "v", "w", "x", "y", "z">>

\* \d
IsDigit(c) == \E i \in 1..10 : Digits[i] = c
\* [A-Z] under the i flag
IsLetter(c) == \E i \in 1..26 : UpperCase[i] = c \/ LowerCase[i] = c

\* String.prototype.toUpperCase, on the characters used here
ToUpperCase(str) ==
  [i \in 1..Len(str) |->
     IF \E j \in 1..26 : LowerCase[j] = str[i]
       THEN UpperCase[CHOOSE j \in 1..26 : LowerCase[j] = str[i]]
       ELSE str[i]]

\* parseInt of a string of digits
DigitValue(c) == (CHOOSE i \in 1..10 : Digits[i] = c) - 1
RECURSIVE ParseInt(_)
ParseInt(str) ==
  IF str = <<>> THEN 0
  ELSE 10 * ParseInt(SubSeq(str, 1, Len(str) - 1)) + DigitValue(str[Len(str)])

\* const mon = {JAN:'01', ..., DEC:'12'}
mon ==
  [k \in { <<"J","A","N">>, <<"F","E","B">>, <<"M","A","R">>, <<"A","P","R">>,
           <<"M","A","Y">>, <<"J","U","N">>, <<"J","U","L">>, <<"A","U","G">>,
           <<"S","E","P">>, <<"O","C","T">>, <<"N","O","V">>, <<"D","E","C">> } |->
     CASE k = <<"J","A","N">> -> <<"0","1">> [] k = <<"F","E","B">> -> <<"0","2">>
       [] k = <<"M","A","R">> -> <<"0","3">> [] k = <<"A","P","R">> -> <<"0","4">>
       [] k = <<"M","A","Y">> -> <<"0","5">> [] k = <<"J","U","N">> -> <<"0","6">>
       [] k = <<"J","U","L">> -> <<"0","7">> [] k = <<"A","U","G">> -> <<"0","8">>
       [] k = <<"S","E","P">> -> <<"0","9">> [] k = <<"O","C","T">> -> <<"1","0">>
       [] k = <<"N","O","V">> -> <<"1","1">> [] k = <<"D","E","C">> -> <<"1","2">>]

\* s.match(/^(\d{2})-([A-Z]{3})-(\d{4})$/i)
MatchDMY(str) ==
  /\ Len(str) = 11
  /\ \A i \in {1, 2, 8, 9, 10, 11} : IsDigit(str[i])
  /\ \A i \in {4, 5, 6} : IsLetter(str[i])
  /\ str[3] = "-"
  /\ str[7] = "-"

\* /^\d{4}-\d{2}-\d{2}$/.test(s)
MatchISO(str) ==
  /\ Len(str) = 10
  /\ \A i \in {1, 2, 3, 4, 6, 7, 9, 10} : IsDigit(str[i])
  /\ str[5] = "-"
  /\ str[8] = "-"

\* mon[m[2].toUpperCase()] || '01'
MonthOf(tok) == IF ToUpperCase(tok) \in DOMAIN mon THEN mon[ToUpperCase(tok)] ELSE <<"0", "1">>

\* parseDate of sync-worker.js and of the in-process server (the same text)
parseDate(str) ==
  IF str = <<>> THEN Null
  ELSE IF MatchDMY(str)
    THEN SubSeq(str, 8, 11) \o <<"-">> \o MonthOf(SubSeq(str, 4, 6)) \o <<"-">> \o SubSeq(str, 1, 2)
  ELSE IF MatchISO(str) THEN SubSeq(str, 1, 10)
  ELSE Null

\* parseDate of daily-worker.js
parseDateDaily(str) ==
  IF str = <<>> THEN Null
  ELSE IF MatchISO(str)
    THEN IF ParseInt(SubSeq(str, 1, 4)) >= 2000 /\ ParseInt(SubSeq(str, 1, 4)) <= 2027
           THEN str ELSE Null
  ELSE Null

\* The strings parseDate is evaluated on.
Days == { <<"0","5">>, <<"1","5">> }
MonthTokens == { <<"M","A","R">>, <<"m","a","r">>, <<"D","e","c">>, <<"J","A","N">>,
                 <<"X","X","X">>, <<"m","a","a">> }
Years == { <<"1","9","9","9">>, <<"2","0","0","0">>, <<"2","0","2","6">>,
           <<"2","0","2","7">>, <<"2","0","2","8">>, <<"2","0","2","9">> }
MonthNumbers == { <<"0","3">>, <<"1","2">> }
OtherShapes ==
  { <<>>,
    <<"2","0","2","6","-","3","-","5">>,
    <<"2","0","2","6","0","3","0","5">>,
    <<"1","5","-","M","A","R","-","2","6">>,
    <<"1","5","-","M","A","R","C","H","-","2","0","2","6">>,
    <<"1","5","/","M","A","R","/","2","0","2","6">>,
    <<" ","2","0","2","6","-","0","3","-","0","5">>,
    <<"2","0","2","6","-","0","3","-","0","5","T","0","0">>,
    <<"n","/","a">> }
DMYStrings == {d \o <<"-">> \o m \o <<"-">> \o y : d \in Days, m \in MonthTokens, y \in Years}
ISOStrings == {y \o <<"-">> \o m \o <<"-">> \o d : y \in Years, m \in MonthNumbers, d \in Days}
DateStrings == DMYStrings \cup ISOStrings \cup OtherShapes

ParseDateInit ==
  /\ pdFn \in {"sync", "daily"}
  /\ pdArg \in DateStrings
  /\ pdRet = Unset
  /\ NoRow
  /\ NoExtract
  /\ NoNormalize
  /\ NoCalendar
  /\ SyncParked
  /\ NoWork

\* parseDate(s) in sync-worker.js / the in-process server
ParseDateCall ==
  /\ pdFn = "sync"
  /\ pdRet = Unset
  /\ pdRet' = parseDate(pdArg)
  /\ UNCHANGED <<pdFn, pdArg, syncVars, rowVars, exVars, normVars, calVars, workVars>>

\* parseDate(s) in daily-worker.js
ParseDateDailyCall ==
  /\ pdFn = "daily"
  /\ pdRet = Unset
  /\ pdRet' = parseDateDaily(pdArg)
  /\ UNCHANGED <<pdFn, pdArg, syncVars, rowVars, exVars, normVars, calVars, workVars>>

ParseDateNext == ParseDateCall \/ ParseDateDailyCall

ParseDateSpec == ParseDateInit /\ [][ParseDateNext]_vars

\* ------------------------------------------------------- the date of a trade
\* a || b on strings and null: the empty string and null are falsy
OrElse(a, b) == IF a = <<>> \/ a = Null THEN b ELSE a

\* subMap[acc] = { ..., filed: parseDate(s.FILEDATE||s.PERIOD_OF_REPORT||''),
\*                      period: parseDate(s.PERIOD_OF_REPORT||s.FILEDATE||'') }
SubMapEntry(r) ==
  [ticker |-> r.ISSUERTRADINGSYMBOL,
   filed  |-> parseDate(OrElse(r.FILEDATE, OrElse(r.PERIOD_OF_REPORT, <<>>))),
   period |-> parseDate(OrElse(r.PERIOD_OF_REPORT, OrElse(r.FILEDATE, <<>>)))]

TradeDateFiledFirst(r, sub) ==
  OrElse(parseDate(OrElse(r.TRANS_DATE, <<>>)), OrElse(sub.filed, sub.period))

\* const date = parseDate(t.TRANS_DATE||'') || sub.period || sub.filed;
TradeDate(r, sub) ==
  OrElse(parseDate(OrElse(r.TRANS_DATE, <<>>)), OrElse(sub.period, sub.filed))

\* The outcome of "if (!sub?.ticker) continue;"
Skipped == <<"skipped">>

\* The date fields a row and its submission may carry (trimmed by tsvRows).
RowDates ==
  { <<>>,
    <<"2","0","2","6","-","0","3","-","3","1">>,
    <<"2","0","2","6","-","0","4","-","1","0">>,
    <<"1","5","-","M","A","R","-","2","0","2","6">>,
    <<"n","/","a">> }

Rows ==
  [TRANS_DATE : RowDates, PERIOD_OF_REPORT : RowDates, FILEDATE : RowDates,
   ISSUERTRADINGSYMBOL : { <<>>, <<"T">> }]

TradeDateInit ==
  /\ row \in Rows
  /\ subEntry = NoEntry
  /\ tradeDate = Unset
  /\ NoParseDate
  /\ NoExtract
  /\ NoNormalize
  /\ NoCalendar
  /\ SyncParked
  /\ NoWork

\* Step 1 of syncQuarter for the submission of the row.
BuildSubMap ==
  /\ subEntry = NoEntry
  /\ subEntry' = SubMapEntry(row)
  /\ UNCHANGED <<row, tradeDate, syncVars, pdVars, exVars, normVars, calVars, workVars>>

\* The body of the loop of processTransactions up to "if (!date) continue;":
\* tradeDate is Skipped for a row without ticker, null for a row dropped for
\* lack of a date, else the trade_date pushed to the batch.
ProcessRow ==
  /\ subEntry # NoEntry
  /\ tradeDate = Unset
  /\ tradeDate' = IF subEntry.ticker = <<>> THEN Skipped ELSE TradeDate(row, subEntry)
  /\ UNCHANGED <<row, subEntry, syncVars, pdVars, exVars, normVars, calVars, workVars>>

TradeDateNext == BuildSubMap \/ ProcessRow

TradeDateSpec == TradeDateInit /\ [][TradeDateNext]_vars

\* --------------------------------------------------------------- extractOne
\* Buffers are sequences of bytes; offsets count from 0 as in the code.
\* buf.slice(a, b): both ends are clamped to the buffer.
Slice(buf, a, b) == SubSeq(buf, Min(a, Len(buf)) + 1, Min(b, Len(buf)))

\* buf.readUInt16LE(off) / buf.readUInt32LE(off) throw a RangeError unless
\* the n bytes read lie inside the buffer.
InRange(buf, off, n) == off + n <= Len(buf)
ReadUInt16LE(buf, off) == buf[off + 1] + 256 * buf[off + 2]
ReadUInt32LE(buf, off) ==
  buf[off + 1] + 256 * buf[off + 2] + 65536 * buf[off + 3] + 16777216 * buf[off + 4]

\* zipBuf[pos]===0x50 && zipBuf[pos+1]===0x4B && zipBuf[pos+2]===0x03 && zipBuf[pos+3]===0x04
IsLocalHeader(buf, p) ==
  buf[p + 1] = 80 /\ buf[p + 2] = 75 /\ buf[p + 3] = 3 /\ buf[p + 4] = 4

\* toUpperCase on character codes
UpperCode(c) == IF c >= 97 /\ c <= 122 THEN c - 32 ELSE c
UpperCodes(str) == [i \in 1..Len(str) |-> UpperCode(str[i])]

\* fname.split('/').pop(): what follows the last '/'
BaseName(fname) ==
  LET slashes == {i \in 1..Len(fname) : fname[i] = 47}
  IN IF slashes = {} THEN fname
     ELSE SubSeq(fname, (CHOOSE i \in slashes : \A j \in slashes : j <= i) + 1, Len(fname))

\* base.startsWith(prefix)
StartsWith(str, prefix) ==
  Len(prefix) <= Len(str) /\ SubSeq(str, 1, Len(prefix)) = prefix

\* base.startsWith(targetPrefix.toUpperCase()), base the upper-cased base name
NameMatches(fname, prefix) ==
  StartsWith(UpperCodes(BaseName(fname)), UpperCodes(prefix))

\* The fields of the local file header at p that the loop reads.
fnLen(buf, p) == ReadUInt16LE(buf, p + 26)
exLen(buf, p) == ReadUInt16LE(buf, p + 28)
compSize(buf, p) == ReadUInt32LE(buf, p + 18)
compression(buf, p) == ReadUInt16LE(buf, p + 8)
dataStart(buf, p) == p + 30 + fnLen(buf, p) + exLen(buf, p)
fname(buf, p) == Slice(buf, p + 30, p + 30 + fnLen(buf, p))

NextEntryPosHeaderOnly(buf, p) == dataStart(buf, p)

\* pos = dataStart + compSize
NextEntryPos(buf, p) == dataStart(buf, p) + compSize(buf, p)

\* Little-endian bytes of a number, for building the buffers.
LE16(n) == <<n % 256, n \div 256>>
LE32(n) == <<n % 256, (n \div 256) % 256, (n \div 65536) % 256, n \div 16777216>>

\* A local file header with its name, extra field and data.
Entry(name, method, extra, data) ==
  <<80, 75, 3, 4, 20, 0, 0, 0>> \o LE16(method) \o <<0, 0, 0, 0, 0, 0, 0, 0>>
    \o LE32(Len(data)) \o LE32(Len(data)) \o LE16(Len(name)) \o LE16(Len(extra))
    \o name \o extra \o data

\* "a/Nd" stored, then "Sub" deflated with an extra field.
FullZip ==
  Entry(<<97, 47, 78, 100>>, 0, <<>>, <<120, 10, 121>>)
    \o Entry(<<83, 117, 98>>, 8, <<1>>, <<203, 0, 0>>)

\* Entries of well-formed archives: "xnd" stored, its data the four bytes of
\* a header signature; "d/Nd1" deflated with an extra field; "ND2" stored.
EntryXnd == [name |-> <<120, 110, 100>>, method |-> 0, extra |-> <<>>, data |-> <<80, 75, 3, 4>>]
EntryNd1 == [name |-> <<100, 47, 78, 100, 49>>, method |-> 8, extra |-> <<1>>, data |-> <<203, 0, 0>>]
EntryNd2 == [name |-> <<78, 68, 50>>, method |-> 0, extra |-> <<>>, data |-> <<10>>]
EntryLists ==
  { <<EntryXnd, EntryNd1, EntryNd2>>, <<EntryXnd, EntryNd2, EntryNd1>>,
    <<EntryXnd>>, <<EntryNd1>> }
EntryBytes(e) == Entry(e.name, e.method, e.extra, e.data)
RECURSIVE Flatten(_)
Flatten(es) == IF es = <<>> THEN <<>> ELSE EntryBytes(Head(es)) \o Flatten(Tail(es))
\* What follows the last entry: the start of the central directory.
Trailer == <<80, 75, 1, 2, 20, 0, 20, 0>>
WellFormedZips == {Flatten(es) \o Trailer : es \in EntryLists}

\* The buffers extractOne is evaluated on: the archive cut at every length,
\* also behind bytes that start like a header, and buffers without a header.
ZipBufs ==
  {junk \o SubSeq(FullZip, 1, n) : junk \in {<<>>, <<80, 75>>}, n \in 0..Len(FullZip)}
    \cup {<<1, 2, 3, 4, 5, 6, 7>>, <<80, 75, 3, 80, 75, 3, 4>>}
    \cup WellFormedZips

\* "nd", "SUB" and "ZZ"
Targets == {<<110, 100>>, <<83, 85, 66>>, <<90, 90>>}

ExtractInit ==
  /\ zipBuf \in ZipBufs
  /\ target \in Targets
  /\ exPos = 0
  /\ exRet = "running"
  /\ NoParseDate
  /\ NoRow
  /\ NoNormalize
  /\ NoCalendar
  /\ SyncParked
  /\ NoWork

\* while (pos < zipBuf.length - 4) fails: return null
ExtractEnd ==
  /\ exRet = "running"
  /\ ~(exPos < Len(zipBuf) - 4)
  /\ exRet' = "null"
  /\ UNCHANGED <<zipBuf, target, exPos, syncVars, pdVars, rowVars, normVars, calVars, workVars>>

\* no signature at pos: pos++; continue
ExtractSkipByte ==
  /\ exRet = "running"
  /\ exPos < Len(zipBuf) - 4
  /\ ~IsLocalHeader(zipBuf, exPos)
  /\ exPos' = exPos + 1
  /\ UNCHANGED <<zipBuf, target, exRet, syncVars, pdVars, rowVars, normVars, calVars, workVars>>

\* a signature at pos: read the header, then return the entry's lines or go
\* on behind its data
ExtractEntry ==
  /\ exRet = "running"
  /\ exPos < Len(zipBuf) - 4
  /\ IsLocalHeader(zipBuf, exPos)
  /\ IF ~(/\ InRange(zipBuf, exPos + 8, 2)
          /\ InRange(zipBuf, exPos + 18, 4)
          /\ InRange(zipBuf, exPos + 26, 2)
          /\ InRange(zipBuf, exPos + 28, 2))
       THEN \* one of the four reads is beyond the buffer
            exRet' = "RangeError" /\ exPos' = exPos
       ELSE IF NameMatches(fname(zipBuf, exPos), target)
         THEN /\ exPos' = exPos
              /\ exRet' =
                   IF compression(zipBuf, exPos) = 8
                        /\ dataStart(zipBuf, exPos) + compSize(zipBuf, exPos) > Len(zipBuf)
                     THEN "inflateError"   \* inflateRawSync on a cut stream
                     ELSE "lines"
         ELSE /\ exPos' = NextEntryPos(zipBuf, exPos)
              /\ exRet' = exRet
  /\ UNCHANGED <<zipBuf, target, syncVars, pdVars, rowVars, normVars, calVars, workVars>>

ExtractNext == ExtractEnd \/ ExtractSkipByte \/ ExtractEntry

ExtractSpec == ExtractInit /\ [][ExtractNext]_vars

\* ----------------------------------------------------- processTransactions
\* JavaScript numbers: finite values in fixed point (v counts units of
\* 1/Scale), the two infinities (v is the sign) and NaN.
Scale == 100000
Fin(v) == [k |-> "fin", v |-> v]
Inf(sign) == [k |-> "inf", v |-> sign]
NaN == [k |-> "nan", v |-> 0]

InfinityToken == <<"I", "n", "f", "i", "n", "i", "t", "y">>

\* The number of digits a string starts with.
RECURSIVE DigitRun(_)
DigitRun(str) ==
  IF str = <<>> \/ ~IsDigit(str[1]) THEN 0 ELSE 1 + DigitRun(Tail(str))

\* The value of the digits after the decimal point, in units of 1/Scale
\* (digits beyond the fifth are below the resolution of v).
FracValue(frac) == ParseInt(SubSeq(frac \o <<"0", "0", "0", "0", "0">>, 1, 5))

\* parseFloat(str): an optional sign, then "Infinity" or digits with an
\* optional fraction; what follows the number is ignored, and a string that
\* starts with no number gives NaN.
ParseFloat(str) ==
  LET signed == str # <<>> /\ str[1] \in {"-", "+"}
      sign   == IF str # <<>> /\ str[1] = "-" THEN -1 ELSE 1
      rest   == IF signed THEN Tail(str) ELSE str
      n      == DigitRun(rest)
      after  == SubSeq(rest, n + 1, Len(rest))
      dot    == after # <<>> /\ after[1] = "."
      m      == IF dot THEN DigitRun(Tail(after)) ELSE 0
  IN  IF StartsWith(rest, InfinityToken) THEN Inf(sign)
      ELSE IF n + m = 0 THEN NaN
      ELSE Fin(sign * (ParseInt(SubSeq(rest, 1, n)) * Scale
                        + FracValue(SubSeq(after, 2, m + 1))))

\* x || 0 on numbers: NaN and 0 are falsy
OrZero(x) == IF x.k = "nan" \/ (x.k = "fin" /\ x.v = 0) THEN Fin(0) ELSE x

\* Math.abs
MathAbs(x) == IF x.k = "nan" THEN x ELSE [x EXCEPT !.v = IF x.v < 0 THEN -x.v ELSE x.v]

\* Math.round: to the nearest integer, halves upwards
MathRound(x) ==
  IF x.k = "fin" THEN Fin(((x.v + Scale \div 2) \div Scale) * Scale) ELSE x

\* a * b: NaN is absorbing, Infinity * 0 is NaN
Times(a, b) ==
  IF a.k = "nan" \/ b.k = "nan" THEN NaN
  ELSE IF a.k = "inf" \/ b.k = "inf"
    THEN IF a.v = 0 \/ b.v = 0 THEN NaN
         ELSE Inf(IF (a.v < 0) = (b.v < 0) THEN 1 ELSE -1)
  ELSE Fin((a.v \div Scale) * b.v + ((a.v % Scale) * b.v) \div Scale)

\* +x.toFixed(4): x rounded to four decimals
ToFixed4(x) ==
  LET unit == Scale \div 10000
  IN  IF x.k = "fin" /\ x.v >= 0 THEN Fin(((x.v + unit \div 2) \div unit) * unit)
      ELSE IF x.k = "fin" THEN Fin(-(((-x.v + unit \div 2) \div unit) * unit))
      ELSE x

\* String.prototype.trim: blanks, tabs and carriage returns at both ends go
Whitespace == {" ", "\t", "\r"}
Trim(str) ==
  LET kept == {i \in 1..Len(str) : str[i] \notin Whitespace}
  IN  IF kept = {} THEN <<>>
      ELSE SubSeq(str, CHOOSE i \in kept : \A j \in kept : i <= j,
                       CHOOSE i \in kept : \A j \in kept : i >= j)

\* map[k] = e
Put(map, k, e) == [a \in DOMAIN map \cup {k} |-> IF a = k THEN e ELSE map[a]]

\* subMap[acc] = { ticker, company, filed, period } of one SUBMISSION row
SubmissionEntry(s) ==
  [ticker  |-> Trim(ToUpperCase(OrElse(s.ISSUERTRADINGSYMBOL, <<>>))),
   company |-> Trim(OrElse(s.ISSUERNAME, <<>>)),
   filed   |-> parseDate(OrElse(s.FILEDATE, OrElse(s.PERIOD_OF_REPORT, <<>>))),
   period  |-> parseDate(OrElse(s.PERIOD_OF_REPORT, OrElse(s.FILEDATE, <<>>)))]

\* for (const s of tsvRows(subLines)) { if (!acc) continue; subMap[acc] = {...} }
RECURSIVE SubMapOf(_)
SubMapOf(lines) ==
  IF lines = <<>> THEN <<>>
  ELSE LET before == SubMapOf(SubSeq(lines, 1, Len(lines) - 1))
           s      == lines[Len(lines)]
           acc    == OrElse(s.ACCESSION_NUMBER, <<>>)
       IN  IF acc = <<>> THEN before ELSE Put(before, acc, SubmissionEntry(s))

\* ownerMap[acc] = { name, title } of one REPORTINGOWNER row
OwnerEntry(o) ==
  [name  |-> Trim(OrElse(o.RPTOWNERNAME, <<>>)),
   title |-> Trim(OrElse(o.OFFICERTITLE, OrElse(o.RPTOWNERRELATIONSHIP, <<>>)))]

OwnerKnownNever(map, acc) == FALSE

\* the test ownerMap[acc] of "if (!acc||ownerMap[acc]) continue;"
OwnerKnown(map, acc) == acc \in DOMAIN map

\* for (const o of tsvRows(ownerLines)) { if (!acc||ownerMap[acc]) continue; ... }
RECURSIVE OwnerMapOf(_)
OwnerMapOf(lines) ==
  IF lines = <<>> THEN <<>>
  ELSE LET before == OwnerMapOf(SubSeq(lines, 1, Len(lines) - 1))
           o      == lines[Len(lines)]
           acc    == OrElse(o.ACCESSION_NUMBER, <<>>)
       IN  IF acc = <<>> \/ OwnerKnown(before, acc) THEN before
           ELSE Put(before, acc, OwnerEntry(o))

HasTickerAnyEntry(map, acc) == acc \in DOMAIN map

\* the test sub?.ticker of "if (!sub?.ticker) continue;" with sub = subMap[acc]
HasTicker(map, acc) == acc \in DOMAIN map /\ map[acc].ticker # <<>>

\* ownerMap[acc]?.name||'' and ownerMap[acc]?.title||''
OwnerName(map, acc) == IF acc \in DOMAIN map THEN map[acc].name ELSE <<>>
OwnerTitle(map, acc) == IF acc \in DOMAIN map THEN map[acc].title ELSE <<>>

\* parseFloat(t.TRANS_SHARES||t.UNDERLYING_SHARES||'0')||0, abs, round
Qty(t) ==
  MathRound(MathAbs(OrZero(ParseFloat(
    OrElse(t.TRANS_SHARES, OrElse(t.UNDERLYING_SHARES, <<"0">>))))))

\* Math.abs(parseFloat(t.TRANS_PRICEPERSHARE||t.EXERCISE_PRICE||'0')||0)
Price(t) ==
  MathAbs(OrZero(ParseFloat(
    OrElse(t.TRANS_PRICEPERSHARE, OrElse(t.EXERCISE_PRICE, <<"0">>)))))

\* Math.round(Math.abs(parseFloat(t.SHRSOWNFOLLOWINGTRANS||'0')||0))
Owned(t) ==
  MathRound(MathAbs(OrZero(ParseFloat(OrElse(t.SHRSOWNFOLLOWINGTRANS, <<"0">>)))))

\* The tuple pushed to the batch for row t with submission sub and date.
Tuple(t, acc, sub, date) ==
  [ticker      |-> sub.ticker,
   company     |-> sub.company,
   insider     |-> OwnerName(ownerMap, acc),
   title       |-> OwnerTitle(ownerMap, acc),
   trade_date  |-> date,
   filing_date |-> OrElse(sub.filed, date),
   type        |-> Trim(OrElse(t.TRANS_CODE, <<"?">>)),
   qty         |-> Qty(t),
   price       |-> ToFixed4(Price(t)),
   value       |-> MathRound(Times(Qty(t), Price(t))),
   owned       |-> Owned(t),
   accession   |-> acc]

\* The rows tsvRows yields (every field trimmed) in the tables of one archive.
AccA == <<"A", "1">>
AccB == <<"B", "2">>
SubRow(acc, ticker, name) ==
  [ACCESSION_NUMBER |-> acc, ISSUERTRADINGSYMBOL |-> ticker, ISSUERNAME |-> name,
   FILEDATE |-> <<"2","0","2","6","-","0","4","-","1","0">>, PERIOD_OF_REPORT |-> <<>>]
SubTables ==
  { <<SubRow(AccA, <<"t","c","k">>, <<"C","o">>)>>,
    <<SubRow(AccA, <<"t","c","k">>, <<"C","o">>), SubRow(AccA, <<"X","y">>, <<"N","e","w"," ","C","o">>)>>,
    <<SubRow(AccA, <<>>, <<"C","o">>)>>,
    <<SubRow(AccB, <<"b","b">>, <<"B","c","o">>)>>,
    <<SubRow(<<>>, <<"z","z">>, <<"Z","c","o">>), SubRow(AccA, <<"t","c","k">>, <<"C","o">>)>> }

OwnerRow(acc, name, title, rel) ==
  [ACCESSION_NUMBER |-> acc, RPTOWNERNAME |-> name, OFFICERTITLE |-> title,
   RPTOWNERRELATIONSHIP |-> rel]
Ann == OwnerRow(AccA, <<"A","n","n">>, <<"C","E","O">>, <<"O","f","f","i","c","e","r">>)
Bob == OwnerRow(AccA, <<"B","o","b">>, <<>>, <<"D","i","r","e","c","t","o","r">>)
Cy == OwnerRow(AccB, <<"C","y">>, <<"C","F","O">>, <<>>)
OwnerTables == { <<>>, <<Ann, Bob>>, <<Cy, Bob, Ann>> }

TransRows ==
  [ACCESSION_NUMBER : {AccA},
   TRANS_DATE : { <<"2","0","2","6","-","0","3","-","3","1">> },
   TRANS_CODE : { <<"S">> },
   TRANS_SHARES : { <<>>, <<"0">>, <<"-","2","5","0",".","6">>,
                    <<"1","3","0","0","0">>, InfinityToken },
   UNDERLYING_SHARES : { <<>>, <<"5","0","0">> },
   TRANS_PRICEPERSHARE : { <<>>, <<"-","1",".","2","5">>, <<"0",".","0","0","0","0","4">> },
   EXERCISE_PRICE : { <<>>, <<"0",".","5">> },
   SHRSOWNFOLLOWINGTRANS : { <<>>, <<"-","4","0",".","5">>, <<"7","0","0">> }]

NormalizeInit ==
  /\ normPc = "start"
  /\ subLines \in SubTables
  /\ ownerLines \in OwnerTables
  /\ transTable \in {"nd", "d"}
  /\ transRow \in TransRows
  /\ subMap = <<>>
  /\ ownerMap = <<>>
  /\ emitted = <<>>
  /\ NoParseDate
  /\ NoRow
  /\ NoExtract
  /\ NoCalendar
  /\ SyncParked
  /\ NoWork

\* Step 1 of syncQuarter: the submissions map.
LoadSubmissions ==
  /\ normPc = "start"
  /\ subMap' = SubMapOf(subLines)
  /\ normPc' = "subs"
  /\ UNCHANGED <<subLines, ownerLines, transTable, transRow, ownerMap, emitted>>
  /\ UNCHANGED <<syncVars, pdVars, rowVars, exVars, calVars, workVars>>

\* Step 2 of syncQuarter: the owners map.
LoadOwners ==
  /\ normPc = "subs"
  /\ ownerMap' = OwnerMapOf(ownerLines)
  /\ normPc' = "owners"
  /\ UNCHANGED <<subLines, ownerLines, transTable, transRow, subMap, emitted>>
  /\ UNCHANGED <<syncVars, pdVars, rowVars, exVars, calVars, workVars>>

\* processTransactions(zipBuf, prefix, subMap, ownerMap) on a table of one
\* row: emitted is the batch handed to doInsert, empty when the row is dropped.
\* The same body serves NONDERIV_TRANS and DERIV_TRANS.
ProcessTransactions ==
  /\ normPc = "owners"
  /\ LET acc == OrElse(transRow.ACCESSION_NUMBER, <<>>)
     IN  emitted' =
           IF ~HasTicker(subMap, acc) THEN <<>>
           ELSE LET date == TradeDate(transRow, subMap[acc])
                IN  IF date = <<>> \/ date = Null THEN <<>>
                    ELSE <<Tuple(transRow, acc, subMap[acc], date)>>
  /\ normPc' = "done"
  /\ UNCHANGED <<subLines, ownerLines, transTable, transRow, subMap, ownerMap>>
  /\ UNCHANGED <<syncVars, pdVars, rowVars, exVars, calVars, workVars>>

NormalizeNext == LoadSubmissions \/ LoadOwners \/ ProcessTransactions

NormalizeSpec == NormalizeInit /\ [][NormalizeNext]_vars

\* ----------------------------------------------------------- the calendar
\* today is the year and month (1..12) of new Date(); a sync_log key
\* `${year}Q${q}` is the pair <<year, q>>.
CalendarYears == 2025..2026
MaxBack == 2
MaxKeys == 3
\* The largest n for which getQuarters(n) is examined.
MaxQuartersBack == 9

\* Math.ceil((new Date().getMonth()+1)/3)
QuarterOf(month) == (month + 2) \div 3

RECURSIVE QuartersBeforeSameYear(_, _, _)
QuartersBeforeSameYear(yr, q, n) ==
  IF n = 0 THEN <<>>
  ELSE LET q1 == IF q - 1 < 1 THEN 4 ELSE q - 1
       IN  <<[year |-> yr, q |-> q1]>> \o QuartersBeforeSameYear(yr, q1, n - 1)

\* getQuarters(n) at a date: "if (--q < 1) { q=4; yr--; }" n times
RECURSIVE QuartersBefore(_, _, _)
QuartersBefore(yr, q, n) ==
  IF n = 0 THEN <<>>
  ELSE LET q1  == IF q - 1 < 1 THEN 4 ELSE q - 1
           yr1 == IF q - 1 < 1 THEN yr - 1 ELSE yr
       IN  <<[year |-> yr1, q |-> q1]>> \o QuartersBefore(yr1, q1, n - 1)
CalendarQuarters(date, n) == QuartersBefore(date.year, QuarterOf(date.month), n)

\* `${year}Q${q}`
KeyOf(yq) == <<yq.year, yq.q>>

\* const { year, q } = getQuarters(1)[0]  (in-process scheduler)
ScheduledKey(date) == KeyOf(CalendarQuarters(date, 1)[1])

InlinePrevQuarterSameYear(date) ==
  LET q == QuarterOf(date.month)
  IN  IF q - 1 < 1 THEN <<date.year, 4>> ELSE <<date.year, q - 1>>

\* let tq = q - 1; let ty = yr; if (tq < 1) { tq = 4; ty--; }  (part_000)
InlinePrevQuarter(date) ==
  LET q == QuarterOf(date.month)
  IN  IF q - 1 < 1 THEN <<date.year - 1, 4>> ELSE <<date.year, q - 1>>

CalendarInit ==
  /\ today \in [year : {CHOOSE y \in CalendarYears : \A z \in CalendarYears : y <= z},
                month : 1..12]
  /\ logKeys = {}
  /\ lastOp = NoOp
  /\ NoParseDate
  /\ NoRow
  /\ NoExtract
  /\ NoNormalize
  /\ SyncParked
  /\ NoWork

\* A month goes by.
MonthPasses ==
  /\ IF today.month < 12
       THEN today' = [today EXCEPT !.month = @ + 1]
       ELSE /\ today.year + 1 \in CalendarYears
            /\ today' = [year |-> today.year + 1, month |-> 1]
  /\ lastOp' = [op |-> "month", deleted |-> {}]
  /\ UNCHANGED logKeys
  /\ UNCHANGED <<syncVars, pdVars, rowVars, exVars, normVars, workVars>>

\* A run over getQuarters(n) that completes every quarter writes their keys
\* (INSERT OR REPLACE INTO sync_log).
CompletedRun(n) ==
  /\ Cardinality(logKeys) < MaxKeys
  /\ logKeys' = logKeys \cup {KeyOf(CalendarQuarters(today, n)[i]) : i \in 1..n}
  /\ lastOp' = [op |-> "run", deleted |-> {}]
  /\ UNCHANGED today
  /\ UNCHANGED <<syncVars, pdVars, rowVars, exVars, normVars, workVars>>

\* DELETE FROM sync_log WHERE quarter=? of the daily timer
Tick(op, key) ==
  /\ logKeys' = logKeys \ {key}
  /\ lastOp' = [op |-> op, deleted |-> logKeys \ logKeys']
  /\ UNCHANGED today
  /\ UNCHANGED <<syncVars, pdVars, rowVars, exVars, normVars, workVars>>

\* setInterval callback, in-process server
TickInProcess == Tick("tick-inproc", ScheduledKey(today))

\* setInterval callback, child-process server
TickChildProcess == Tick("tick-child", InlinePrevQuarter(today))

CalendarNext ==
  \/ MonthPasses
  \/ \E n \in 1..MaxBack : CompletedRun(n)
  \/ TickInProcess
  \/ TickChildProcess

CalendarSpec == CalendarInit /\ [][CalendarNext]_vars

\* ---------------------------------------------------------- line arrays
\* The tables of one archive in the order syncQuarter reads them, and the
\* number of lines extractOne returns for each: 0 stands for null (no entry
\* found); a found entry gives at least one line.
TableNames == <<"sub", "owner", "nd", "d">>
LineCounts == {0, 1, 3}

TruncatedNothing(held, t) == held

\* subLines.length = 0, ownerLines.length = 0, lines.length = 0
Truncated(held, t) == [held EXCEPT ![t] = 0]

\* The table read after table number k, or the sync_log write.
AfterTable(k) == IF k < Len(TableNames) THEN <<k + 1, "extract">> ELSE <<0, "log">>

LinesInit ==
  /\ mem \in [pc : {<<1, "extract">>},
              tables : [1..Len(TableNames) -> LineCounts],
              held : {[k \in 1..Len(TableNames) |-> 0]}]
  /\ tsv = TsvIdle
  /\ throttle = ThrottleIdle
  /\ daily = DailyIdle
  /\ NoParseDate
  /\ NoRow
  /\ NoExtract
  /\ NoNormalize
  /\ NoCalendar
  /\ SyncParked

LinesFrame ==
  UNCHANGED <<tsv, throttle, daily, syncVars, pdVars, rowVars, exVars, normVars, calVars>>

\* const xLines = extractOne(zipBuf, prefix): the array, or null. In
\* processTransactions null returns 0 at once.
LinesExtract ==
  /\ mem.pc # <<>>
  /\ mem.pc[2] = "extract"
  /\ LET k == mem.pc[1]
     IN  mem' = [mem EXCEPT
                   !.held[k] = mem.tables[k],
                   !.pc = IF mem.tables[k] = 0 /\ TableNames[k] \in {"nd", "d"}
                            THEN AfterTable(k)
                            ELSE <<k, "produce">>]
  /\ LinesFrame

\* The loop over tsvRows(xLines) that fills the map or inserts the batches;
\* doInsert may throw, which ends syncQuarter.
LinesProduce(wr) ==
  /\ mem.pc # <<>>
  /\ mem.pc[2] = "produce"
  /\ wr = "error" => TableNames[mem.pc[1]] \in {"nd", "d"}
  /\ mem' = [mem EXCEPT !.pc = IF wr = "ok" THEN <<mem.pc[1], "truncate">>
                                ELSE <<mem.pc[1], "failed">>]
  /\ LinesFrame

\* xLines.length = 0: a TypeError when xLines is null
LinesTruncate ==
  /\ mem.pc # <<>>
  /\ mem.pc[2] = "truncate"
  /\ LET k == mem.pc[1]
     IN  mem' = IF mem.tables[k] = 0
                  THEN [mem EXCEPT !.pc = <<k, "failed">>]
                  ELSE [mem EXCEPT !.held = Truncated(mem.held, k), !.pc = AfterTable(k)]
  /\ LinesFrame

LinesNext == LinesExtract \/ (\E wr \in {"ok", "error"} : LinesProduce(wr)) \/ LinesTruncate

LinesSpec == LinesInit /\ [][LinesNext]_vars

\* ------------------------------------------------------------------ tsvRows
\* line.split('\t')
RECURSIVE SplitTabs(_)
SplitTabs(str) ==
  LET tabs == {i \in 1..Len(str) : str[i] = "\t"}
  IN  IF tabs = {} THEN <<str>>
      ELSE LET i == CHOOSE t \in tabs : \A u \in tabs : t <= u
           IN  <<SubSeq(str, 1, i - 1)>> \o SplitTabs(SubSeq(str, i + 1, Len(str)))

\* const hdrs = lines[0].split('\t').map(h => h.trim().toUpperCase())
Headers(lines) ==
  LET cells == SplitTabs(lines[1])
  IN  [j \in 1..Len(cells) |-> ToUpperCase(Trim(cells[j]))]

\* hdrs.forEach((h,j) => { row[h] = (cols[j]||'').trim(); }): a header name
\* that occurs twice keeps the cell of its last column
RowOf(hdrs, line) ==
  LET cols == SplitTabs(line)
  IN  [h \in {hdrs[j] : j \in 1..Len(hdrs)} |->
         LET j == CHOOSE c \in 1..Len(hdrs) :
                    hdrs[c] = h /\ \A d \in 1..Len(hdrs) : hdrs[d] = h => d <= c
         IN  IF j <= Len(cols) THEN Trim(cols[j]) ELSE <<>>]

IsBlankNever(line) == FALSE

\* if (!lines[i].trim()) continue;
IsBlank(line) == Trim(line) = <<>>

\* Header lines and data lines of a table, as sequences of characters.
HeaderLines ==
  { <<" ", "a", "\t", "B", " ">>, <<"a">>, <<"a", "\t", "b", "\t", "a">> }
DataLines ==
  { <<>>, <<" ", "\r">>, <<"\t">>, <<"x", "\t", " ", "y", " ", "\r">>, <<"x">>,
    <<"x", "\t", "y", "\t", "z">> }
TsvInputs ==
  { <<>> } \cup { <<h>> : h \in HeaderLines }
    \cup { <<h, d>> : h \in HeaderLines, d \in DataLines }
    \cup { <<h, d, e>> : h \in HeaderLines, d \in DataLines, e \in DataLines }

TsvInit ==
  /\ tsv \in [pc : {"start"}, lines : TsvInputs, i : {0}, out : {<<>>}, prev : {<<>>}]
  /\ mem = MemIdle
  /\ throttle = ThrottleIdle
  /\ daily = DailyIdle
  /\ NoParseDate
  /\ NoRow
  /\ NoExtract
  /\ NoNormalize
  /\ NoCalendar
  /\ SyncParked

TsvFrame ==
  UNCHANGED <<mem, throttle, daily, syncVars, pdVars, rowVars, exVars, normVars, calVars>>

\* if (!lines?.length) return; ... for (let i = 1; ...)   (i counts from 1 here)
TsvStart ==
  /\ tsv.pc = "start"
  /\ tsv' = IF tsv.lines = <<>> THEN [tsv EXCEPT !.pc = "done"]
            ELSE [tsv EXCEPT !.pc = "loop", !.i = 2]
  /\ TsvFrame

\* a blank line: continue
TsvSkipBlank ==
  /\ tsv.pc = "loop"
  /\ tsv.i <= Len(tsv.lines)
  /\ IsBlank(tsv.lines[tsv.i])
  /\ tsv' = [tsv EXCEPT !.i = @ + 1]
  /\ TsvFrame

\* yield row
TsvYield ==
  /\ tsv.pc = "loop"
  /\ tsv.i <= Len(tsv.lines)
  /\ ~IsBlank(tsv.lines[tsv.i])
  /\ tsv' = [tsv EXCEPT !.out = Append(@, RowOf(Headers(tsv.lines), tsv.lines[tsv.i])),
                        !.i = @ + 1]
  /\ TsvFrame

\* the for loop ends: the generator is done
TsvReturn ==
  /\ tsv.pc = "loop"
  /\ tsv.i > Len(tsv.lines)
  /\ tsv' = [tsv EXCEPT !.pc = "done"]
  /\ TsvFrame

\* tsvRows is called on the same lines a second time.
TsvAgain ==
  /\ tsv.pc = "done"
  /\ tsv.prev = <<>>
  /\ tsv' = [tsv EXCEPT !.pc = "start", !.i = 0, !.out = <<>>, !.prev = <<tsv.out>>]
  /\ TsvFrame

TsvNext == TsvStart \/ TsvSkipBlank \/ TsvYield \/ TsvReturn \/ TsvAgain

TsvSpec == TsvInit /\ [][TsvNext]_vars

\* ------------------------------------------------------------------ throttledGet / drain (daily-worker.js)
\* Requests are numbered in the order of their throttledGet calls.
MaxRequests == 5

\* const MAX_CONCURRENT = 4;
MAX_CONCURRENT == 4

HasSlotInclusive(active) == active <= MAX_CONCURRENT

\* active < MAX_CONCURRENT
HasSlot(active) == active < MAX_CONCURRENT

\* drain(): while a slot is free and a request waits, shift it off the queue,
\* count it active and arm its timer
RECURSIVE Drain(_)
Drain(t) ==
  IF HasSlot(t.active) /\ t.queue # <<>>
    THEN Drain([t EXCEPT !.queue = Tail(@),
                         !.active = @ + 1,
                         !.timers = @ \cup {Head(t.queue)},
                         !.dequeued = Append(@, Head(t.queue))])
    ELSE t

DrainOnFailureNever(t) == t

\* .catch(e => { active--; reject(e); drain(); }): the drain of the failure branch
DrainOnFailure(t) == Drain(t)

ThrottleInit ==
  /\ throttle = ThrottleIdle
  /\ mem = MemIdle
  /\ tsv = TsvIdle
  /\ daily = DailyIdle
  /\ NoParseDate
  /\ NoRow
  /\ NoExtract
  /\ NoNormalize
  /\ NoCalendar
  /\ SyncParked

ThrottleFrame ==
  UNCHANGED <<mem, tsv, daily, syncVars, pdVars, rowVars, exVars, normVars, calVars>>

\* throttledGet(url, ms): queue.push({...}); drain();
ThrottledGet ==
  /\ throttle.enqueued < MaxRequests
  /\ LET id     == throttle.enqueued + 1
         pushed == [throttle EXCEPT !.queue = Append(@, id), !.enqueued = id]
         after  == Drain(pushed)
     IN  throttle' = [after EXCEPT !.waited = @ \cup {q \in 1..id : \E k \in 1..Len(after.queue) : after.queue[k] = q}]
  /\ ThrottleFrame

\* the setTimeout callback of a dequeued request runs: get(url, ms) is called
TimerFires(id) ==
  /\ id \in throttle.timers
  /\ throttle' = [throttle EXCEPT !.timers = @ \ {id}, !.inflight = @ \cup {id}]
  /\ ThrottleFrame

\* .then(r => { active--; resolve(r); drain(); })
GetResolves(id) ==
  /\ id \in throttle.inflight
  /\ throttle' = Drain([throttle EXCEPT !.inflight = @ \ {id},
                                        !.active = @ - 1,
                                        !.settled = @ \cup {<<id, "resolved">>},
                                        !.settles = @ + 1])
  /\ ThrottleFrame

\* .catch(e => { active--; reject(e); drain(); })
GetRejects(id) ==
  /\ id \in throttle.inflight
  /\ throttle' = DrainOnFailure([throttle EXCEPT !.inflight = @ \ {id},
                                                 !.active = @ - 1,
                                                 !.settled = @ \cup {<<id, "rejected">>},
                                                 !.settles = @ + 1])
  /\ ThrottleFrame

ThrottleNext ==
  \/ ThrottledGet
  \/ \E id \in 1..MaxRequests : TimerFires(id)
  \/ \E id \in 1..MaxRequests : GetResolves(id)
  \/ \E id \in 1..MaxRequests : GetRejects(id)

ThrottleSpec == ThrottleInit /\ [][ThrottleNext]_vars

\* Every armed timer fires, and every HTTP call that was started settles.
ThrottleLiveSpec ==
  /\ ThrottleInit
  /\ [][ThrottleNext]_vars
  /\ \A id \in 1..MaxRequests : WF_vars(TimerFires(id))
  /\ \A id \in 1..MaxRequests : WF_vars(GetResolves(id) \/ GetRejects(id))

\* ------------------------------------------------------------------ fetchDayIndex (daily-worker.js)
\* Dates handed to fetchDayIndex by the runs of the worker, and the most
\* Form 4 lines an index lists.
MaxDates == 2
MaxFilings == 2

\* How the index request of a date ends: status 200, status 404, another
\* status, or a rejected promise.
IndexOutcomes == {"200", "404", "500", "threw"}

\* How the async function of one filing ends: rows inserted (it returns
\* rows.length), an ownership document without rows, a status other than 200
\* or a page without a usable XML document, or an exception caught by its
\* try/catch. All but the first return 0.
FilingOutcomes == {"inserted", "norows", "http", "threw"}

\* totalTrades: one row is counted for every filing that inserted.
RECURSIVE TotalTrades(_)
TotalTrades(outcomes) ==
  IF outcomes = <<>> THEN 0
  ELSE (IF Head(outcomes) = "inserted" THEN 1 ELSE 0) + TotalTrades(Tail(outcomes))

\* INSERT OR IGNORE / INSERT OR REPLACE INTO daily_log: date is the key
LogWrite(log, date, filings, trades) ==
  {r \in log : r.date # date} \cup {[date |-> date, filings |-> filings, trades |-> trades]}

DailyInit ==
  /\ daily = [DailyIdle EXCEPT !.pc = "idle"]
  /\ mem = MemIdle
  /\ tsv = TsvIdle
  /\ throttle = ThrottleIdle
  /\ NoParseDate
  /\ NoRow
  /\ NoExtract
  /\ NoNormalize
  /\ NoCalendar
  /\ SyncParked

DailyFrame ==
  UNCHANGED <<mem, tsv, throttle, syncVars, pdVars, rowVars, exVars, normVars, calVars>>

\* fetchDayIndex(dateStr) is entered for a date that daily_log holds:
\* "already ingested", return
DayAlreadyIngested(d) ==
  /\ daily.pc = "idle"
  /\ \E r \in daily.log : r.date = d
  /\ daily' = [daily EXCEPT !.skipped = @ \cup {d}]
  /\ DailyFrame

\* fetchDayIndex(dateStr) is entered for a date that daily_log lacks: the
\* index is requested
DayStart(d) ==
  /\ daily.pc = "idle"
  /\ ~\E r \in daily.log : r.date = d
  /\ daily' = [daily EXCEPT !.pc = "index", !.date = d, !.filings = <<>>]
  /\ DailyFrame

\* the index request ends without status 200: return, nothing is recorded
IndexFails(outcome) ==
  /\ daily.pc = "index"
  /\ outcome # "200"
  /\ daily' = [daily EXCEPT !.pc = "idle"]
  /\ DailyFrame

\* the index arrives with status 200 and lists n Form 4 lines; with none the
\* date is recorded at once, otherwise the filings are requested
IndexArrives(n) ==
  /\ daily.pc = "index"
  /\ daily' =
       IF n = 0
         THEN [daily EXCEPT !.pc = "idle",
                            !.log = LogWrite(@, daily.date, 0, 0),
                            !.recorded = @ \cup {[date |-> daily.date, outcomes |-> <<>>]}]
         ELSE [daily EXCEPT !.pc = "batch", !.filings = [k \in 1..n |-> "pending"]]
  /\ DailyFrame

\* the async function of filing k ends; Promise.allSettled waits for the rest
FilingSettles(k, outcome) ==
  /\ daily.pc = "batch"
  /\ k \in DOMAIN daily.filings
  /\ daily.filings[k] = "pending"
  /\ daily' = [daily EXCEPT !.filings[k] = outcome]
  /\ DailyFrame

\* every filing has settled: INSERT OR REPLACE INTO daily_log
\* (date, filings, trades) VALUES (dateStr, filings.length, totalTrades)
DayDone ==
  /\ daily.pc = "batch"
  /\ \A k \in DOMAIN daily.filings : daily.filings[k] # "pending"
  /\ daily' = [daily EXCEPT !.pc = "idle",
                            !.log = LogWrite(@, daily.date, Len(daily.filings),
                                             TotalTrades(daily.filings)),
                            !.recorded = @ \cup {[date |-> daily.date,
                                                  outcomes |-> daily.filings]}]
  /\ DailyFrame

DailyNext ==
  \/ \E d \in 1..MaxDates : DayAlreadyIngested(d)
  \/ \E d \in 1..MaxDates : DayStart(d)
  \/ \E outcome \in IndexOutcomes : IndexFails(outcome)
  \/ \E n \in 0..MaxFilings : IndexArrives(n)
  \/ \E k \in 1..MaxFilings, outcome \in FilingOutcomes : FilingSettles(k, outcome)
  \/ DayDone

DailySpec == DailyInit /\ [][DailyNext]_vars

\* ------------------------------------------------------------------ claims
RowsOf(zip) ==
  {zip.nd.rows[i] : i \in 1..Len(zip.nd.rows)} \cup {zip.d.rows[i] : i \in 1..Len(zip.d.rows)}

RowsWithKey(k) == {x \in BagToSet(store) : Key(x) = k}

\* C1: in every reachable state no two rows of the trades table have the same
\* (accession, insider, trade_date, type, qty).
C1_UniqueKey ==
  \A x \in BagToSet(store) :
    /\ CopiesIn(x, store) = 1
    /\ RowsWithKey(Key(x)) = {x}

\* C1 witness: several rows are stored, the daily worker has inserted one, and
\* a quarterly sync has had a tuple suppressed as a duplicate.
C1_Witness ==
  /\ NumRows(store) >= 3
  /\ BagIn(R4, store)
  /\ inv.stmts > inv.newRows

\* C2: a sync of a quarter that has a sync_log entry, run without force,
\* adds no row to the trades table.
C2_SecondSyncAddsNoRows ==
  (inv.status # "none" /\ inv.wasDone /\ ~inv.force) => inv.newRows = 0

\* C2 witness: a second, unforced sync of a synced quarter has ended, with
\* rows of the first sync in the table.
C2_Witness ==
  /\ inv.status = "skipped"
  /\ inv.wasDone
  /\ ~inv.force
  /\ NumRows(store) > 0

\* C3 as stated: a syncQuarter invocation for a quarter whose sync_log entry
\* is present (nothing has removed it) fetches nothing and writes neither
\* the trades table nor the sync log.
C3_DoneMeansNoWork ==
  (inv.status # "none" /\ inv.wasDone) =>
    (inv.fetches = 0 /\ inv.stmts = 0 /\ inv.logWrites = 0)

\* A step writes the sync_log entry of quarter q.
LogWritten(q) ==
  /\ q \in DOMAIN syncLog'
  /\ q \notin DOMAIN syncLog \/ syncLog'[q] # syncLog[q]

\* C4: the sync_log entry of a quarter is written only by an invocation for
\* that quarter that has, in this order and without error, fetched the
\* archive and finished the submission, owner, non-derivative and derivative
\* steps with all their batches.
C4_LogOnlyAfterAllStages ==
  [][(inv'.logWrites > inv.logWrites \/ \E q \in Quarters : LogWritten(q)) =>
       /\ inv.status = "running"
       /\ inv.fail = "none"
       /\ inv.fetches = 1
       /\ inv.stages = AllStages
       /\ inv.logWrites = 0
       /\ \A q \in Quarters : LogWritten(q) => q = inv.q]_vars

\* C4 witness: an invocation that inserted rows has written its entry.
C4_Witness ==
  /\ inv.status = "ok"
  /\ inv.logWrites = 1
  /\ inv.stmts > 0
  /\ Synced(inv.q)

\* C5 as stated: once the processing of a quarter has failed, the quarter has
\* no sync_log entry.
C5_FailedQuarterNotDone == inv.status = "failed" => ~Synced(inv.q)

\* C6: the step in which the processing of quarter K fails leaves the trades
\* table and the sync_log entries of all other quarters as they were, and
\* starts no forced processing: the run ends or goes on to its next quarter
\* with force unchanged.
C6_FailureIsScoped ==
  [][(inv.status = "running" /\ inv'.status = "failed") =>
       /\ store' = store
       /\ \A q \in Quarters \ {inv.q} :
            /\ Synced(q) <=> q \in DOMAIN syncLog'
            /\ Synced(q) => syncLog'[q] = syncLog[q]
       /\ pc' = "idle" \/ (pc' = "check" /\ force' = force)]_vars

\* C6 witness: a quarter has failed after committing rows while another
\* quarter is Done.
C6_Witness ==
  /\ inv.status = "failed"
  /\ inv.stmts > 0
  /\ \E q \in Quarters \ {inv.q} : Synced(q)

\* C7 as stated: a run in which a quarter failed with a fetch error, a
\* malformed archive or a write error has attempted all its target quarters
\* when it ends.
C7_RunAttemptsAllTargets ==
  (pc = "idle" /\ runHist.fails # {} /\ "crash" \notin runHist.fails) =>
    runHist.attempted = 1..runHist.numQ

\* C8: when an invocation for quarter Q completes after an earlier invocation
\* over the same archive was interrupted with batches committed, every
\* uniqueness key of the archive's trades is stored exactly once.
C8_RetryStoresEachKeyOnce ==
  (inv.status = "ok" /\ inv.q \in partial) =>
    \A r \in RowsOf(inv.zipBuf) :
      /\ Cardinality(RowsWithKey(Key(r))) = 1
      /\ \A x \in RowsWithKey(Key(r)) : CopiesIn(x, store) = 1

\* C8 witness: the retry of an interrupted quarter with several batches has
\* completed.
C8_Witness ==
  /\ inv.status = "ok"
  /\ inv.q \in partial
  /\ Len(inv.zipBuf.nd.rows) > WorkerBatch
  /\ Len(inv.zipBuf.d.rows) > 0

\* C9: no step changes or removes a stored row, a row that appears has a key
\* that was not stored, and a write of tuples whose keys are all stored
\* leaves the table unchanged and the invocation running without error.
C9_DuplicateWriteIsNoOp ==
  [][/\ \A x \in BagToSet(store) : CopiesIn(x, store') = CopiesIn(x, store)
     /\ \A y \in BagToSet(store') \ BagToSet(store) :
          ~HasKey(store, Key(y)) /\ CopiesIn(y, store') = 1
     /\ (inv'.stmts > inv.stmts /\ inv'.newRows = inv.newRows) =>
          (store' = store /\ inv'.status = "running")]_vars

\* C9 witness: a tuple with a stored key and another owned value has been
\* written and ignored.
C9_Witness ==
  /\ inv.stmts > inv.newRows
  /\ "nd" \in {inv.stages[i] : i \in 1..Len(inv.stages)}
  /\ \E r \in RowsOf(inv.zipBuf) : \E x \in BagToSet(store) :
       Key(x) = Key(r) /\ x.owned # r.owned

\* C10 as stated: the row count written to the sync_log entry is the number
\* of rows the invocation inserted into the trades table.
C10_RowCountIsInsertedRows == inv.status = "ok" => inv.rows = inv.newRows

\* The keys of the rows of a batch.
KeysOf(batch) == {Key(batch[i]) : i \in 1..Len(batch)}

\* The batch the running invocation hands to doInsert in its next write.
CurBatch ==
  IF pc \in {"nd", "d"} THEN NextBatch(inv.zipBuf[pc].rows, pos) ELSE <<>>

\* C11: a batch commits as one unit. A write of the sync that succeeds
\* leaves every row of its batch applied (its key is stored) and adds only
\* rows of that batch; a write that fails leaves the trades table as it was
\* before the batch; any other change of the table is one whole filing of the
\* daily worker.
C11_BatchIsAtomic ==
  [][/\ inv'.stmts > inv.stmts =>
          /\ \A k \in KeysOf(CurBatch) : HasKey(store', k)
          /\ \A y \in BagToSet(store') \ BagToSet(store) : Key(y) \in KeysOf(CurBatch)
     /\ (inv.status = "running" /\ inv'.status = "failed" /\ inv'.fail = "write") =>
          store' = store
     /\ (store' # store /\ inv'.stmts = inv.stmts) =>
          \E f \in DailyFilings :
            /\ \A k \in KeysOf(f) : HasKey(store', k)
            /\ \A y \in BagToSet(store') \ BagToSet(store) : Key(y) \in KeysOf(f)]_vars

\* C11 witness: after a committed batch, the write of a later batch of the
\* same invocation failed, and no row of the failed batch is in the table.
C11_Witness ==
  /\ inv.status = "failed"
  /\ inv.fail = "write"
  /\ inv.stmts > 0
  /\ \E r \in RowsOf(inv.zipBuf) : ~HasKey(store, Key(r))

\* C12: an invocation whose archive fetch failed (a rejected request or a
\* status other than 200) runs no insert, writes no sync_log entry and holds
\* no archive, and the step in which the fetch fails leaves the trades table
\* and the sync_log as they were.
C12_FetchFailureWritesNothing ==
  [][/\ (inv'.fail = "fetch" \/ inv'.http \in {"http", "neterr"}) =>
          /\ inv'.stmts = 0
          /\ inv'.newRows = 0
          /\ inv'.logWrites = 0
     /\ (inv.status = "running" /\ inv'.fail = "fetch") =>
          /\ store' = store
          /\ syncLog' = syncLog]_vars

\* C12 witness: the fetch of a quarter has failed while rows and entries of
\* other syncs are in the tables.
C12_Witness ==
  /\ inv.status = "failed"
  /\ inv.fail = "fetch"
  /\ NumRows(store) > 0
  /\ syncLog # <<>>
  /\ ~Synced(inv.q)

\* C13 as stated: when the last invocation left quarter K without an entry by
\* failing, the run that starts next has K among its target quarters.
C13_NextRunReattemptsFailed ==
  [][(pc = "idle" /\ pc' = "check" /\ inv.status = "failed" /\ ~Synced(inv.q)) =>
       inv.q \in {getQuarters(numQ')[i] : i \in 1..numQ'}]_vars

\* An archive with the SUBMISSION, REPORTINGOWNER and NONDERIV_TRANS entries
\* and no DERIV_TRANS entry.
MissingDeriv(zip) ==
  /\ zip.sub = "ok"
  /\ zip.owner = "ok"
  /\ zip.nd.state = "ok"
  /\ zip.d.state = "absent"

\* C14 as stated: an invocation over an archive without the DERIV_TRANS entry
\* that has stored the non-derivative trades does not fail on the missing
\* table: unless a write fails, it ends with its sync_log entry written.
C14_MissingDerivCompletes ==
  (MissingDeriv(inv.zipBuf) /\ inv.status = "failed") => inv.fail = "write"

\* C15 as stated: no invocation fails because the scanner reported a table
\* absent.
C15_AbsentTableNotFatal == inv.status = "failed" => inv.fail # "absent"

\* C16 as stated: no invocation fails because an entry does not decompress.
C16_MalformedTableNotFatal == inv.status = "failed" => inv.fail # "malformed"

\* The year a date string names: the first four characters of the
\* YYYY-MM-DD form, the last four of the DD-MON-YYYY form.
YearOf(str) ==
  IF MatchISO(str) THEN ParseInt(SubSeq(str, 1, 4)) ELSE ParseInt(SubSeq(str, 8, 11))

\* C18 as stated: parseDate returns null for every string of the YYYY-MM-DD
\* or the DD-MON-YYYY form whose year is outside [2000, 2027], so every date
\* it returns has its year inside the bound.
C18_YearOutOfBoundIsNull ==
  /\ (pdRet # Unset /\ (MatchISO(pdArg) \/ MatchDMY(pdArg))
        /\ YearOf(pdArg) \notin 2000..2027) => pdRet = Null
  /\ pdRet \notin {Unset, Null} => YearOf(pdRet) \in 2000..2027

\* C19 as stated: parseDate of the sync maps DD-MON-YYYY with MON a month
\* abbreviation in any letter case to YYYY-MM-DD with the month's number,
\* returns a string of the form YYYY-MM-DD as it is, and returns null for
\* every other string, a DD-XXX-YYYY string with XXX no month included.
C19_ParseDateShapes ==
  (pdFn = "sync" /\ pdRet # Unset) =>
    pdRet = IF MatchDMY(pdArg) /\ ToUpperCase(SubSeq(pdArg, 4, 6)) \in DOMAIN mon
              THEN SubSeq(pdArg, 8, 11) \o <<"-">>
                     \o mon[ToUpperCase(SubSeq(pdArg, 4, 6))] \o <<"-">>
                     \o SubSeq(pdArg, 1, 2)
            ELSE IF MatchISO(pdArg) THEN pdArg
            ELSE Null

\* C20: the trade_date of an emitted trade is the first non-null of the
\* normalized transaction date of the row, the normalized period-of-report
\* date and the normalized filed date of its submission; the row is dropped
\* for lack of a date (null) exactly when all three are null.
C20_TradeDateIsFirstNonNull ==
  (tradeDate # Unset /\ tradeDate # Skipped) =>
    tradeDate = IF parseDate(row.TRANS_DATE) # Null THEN parseDate(row.TRANS_DATE)
                ELSE IF parseDate(row.PERIOD_OF_REPORT) # Null
                  THEN parseDate(row.PERIOD_OF_REPORT)
                ELSE parseDate(row.FILEDATE)

\* C20 witness: a row without transaction date whose submission has period
\* 2026-03-31 and filed date 2026-04-10 has been given trade_date 2026-03-31.
C20_Witness ==
  /\ row.TRANS_DATE = <<>>
  /\ row.PERIOD_OF_REPORT = <<"2","0","2","6","-","0","3","-","3","1">>
  /\ row.FILEDATE = <<"2","0","2","6","-","0","4","-","1","0">>
  /\ tradeDate = <<"2","0","2","6","-","0","3","-","3","1">>

\* A call of extractOne has ended, and it ended in the branch taken when the
\* base name of an entry matches.
ExtractEnded == exRet \notin {"none", "running"}
MatchFound == exRet \in {"lines", "inflateError"}

\* C17 as stated: a call of extractOne that ends without having found an
\* entry whose base name matches returns null.
C17_NoMatchReturnsNull == (ExtractEnded /\ ~MatchFound) => exRet = "null"

\* The accession of the transaction row and the first REPORTINGOWNER row
\* that carries it.
RowAcc == transRow.ACCESSION_NUMBER
FirstOwnerRow(acc) ==
  CHOOSE i \in 1..Len(ownerLines) :
    /\ ownerLines[i].ACCESSION_NUMBER = acc
    /\ \A j \in 1..(i - 1) : ownerLines[j].ACCESSION_NUMBER # acc

\* C21: a transaction row yields a trade only if its accession number is a
\* key of subMap whose entry has a non-empty ticker, the trade carries the
\* ticker and company of that entry, and a row whose accession is unknown or
\* whose entry has no ticker is dropped while processing goes on to its end.
C21_TradeNeedsSubmissionTicker ==
  normPc = "done" =>
    /\ emitted # <<>> =>
         /\ RowAcc \in DOMAIN subMap
         /\ subMap[RowAcc].ticker # <<>>
         /\ emitted[1].ticker = subMap[RowAcc].ticker
         /\ emitted[1].company = subMap[RowAcc].company
    /\ (RowAcc \notin DOMAIN subMap \/ subMap[RowAcc].ticker = <<>>) => emitted = <<>>

\* C21 witness: a trade was emitted for an accession that two SUBMISSION rows
\* carry, with the upper-cased ticker and the company of the later row.
C21_Witness ==
  /\ normPc = "done"
  /\ Len(emitted) = 1
  /\ Len(subLines) = 2
  /\ emitted[1].ticker = <<"X", "Y">>
  /\ emitted[1].company = <<"N", "e", "w", " ", "C", "o">>

\* C22: the owner map holds, for every accession number of the
\* REPORTINGOWNER table, the name and title of the first row that carries
\* it, and an emitted trade names that first owner.
C22_FirstOwnerWins ==
  normPc \in {"owners", "done"} =>
    /\ \A i \in 1..Len(ownerLines) :
         LET acc == ownerLines[i].ACCESSION_NUMBER
             o   == ownerLines[FirstOwnerRow(acc)]
         IN  /\ acc \in DOMAIN ownerMap
             /\ ownerMap[acc].name = o.RPTOWNERNAME
             /\ ownerMap[acc].title =
                  (IF o.OFFICERTITLE # <<>> THEN o.OFFICERTITLE ELSE o.RPTOWNERRELATIONSHIP)
    /\ (emitted # <<>> /\ \E i \in 1..Len(ownerLines) : ownerLines[i].ACCESSION_NUMBER = RowAcc) =>
         emitted[1].insider = ownerLines[FirstOwnerRow(RowAcc)].RPTOWNERNAME

\* C22 witness: a trade was emitted whose accession two owner rows carry,
\* the first of them after a row of another filing.
C22_Witness ==
  /\ normPc = "done"
  /\ Len(emitted) = 1
  /\ Len(ownerLines) = 3
  /\ emitted[1].insider = <<"B", "o", "b">>

\* The rounded absolute value of a numeric field, 0 for a blank or
\* unparseable one.
RoundedAbs(str) == MathRound(MathAbs(OrZero(ParseFloat(str))))
BlankOrZero(str) == OrZero(ParseFloat(str)) = Fin(0)

\* C23 as stated: qty is the rounded absolute value of TRANS_SHARES, except
\* that a derivative row whose TRANS_SHARES is blank or zero takes
\* UNDERLYING_SHARES instead; a non-derivative row never does.
C23_QtyFallbackDerivOnly ==
  (normPc = "done" /\ emitted # <<>>) =>
    emitted[1].qty =
      (IF transTable = "d" /\ BlankOrZero(transRow.TRANS_SHARES)
         THEN RoundedAbs(transRow.UNDERLYING_SHARES)
         ELSE RoundedAbs(transRow.TRANS_SHARES))

\* C24 as stated: a trade of the derivative table has owned = 0 and a trade
\* of the non-derivative table has the rounded absolute value of
\* SHRSOWNFOLLOWINGTRANS.
C24_DerivOwnedIsZero ==
  (normPc = "done" /\ emitted # <<>>) =>
    emitted[1].owned =
      (IF transTable = "d" THEN Fin(0) ELSE RoundedAbs(transRow.SHRSOWNFOLLOWINGTRANS))

\* x >= 0 on JavaScript numbers (false for NaN, which SQLite stores as NULL)
NonNegative(x) == (x.k = "fin" /\ x.v >= 0) \/ (x.k = "inf" /\ x.v > 0)

\* C25 as stated: qty, price, value and owned of every emitted trade are
\* numbers >= 0, whatever the numeric fields of the row hold.
C25_NumbersNonNegative ==
  (normPc = "done" /\ emitted # <<>>) =>
    /\ NonNegative(emitted[1].qty)
    /\ NonNegative(emitted[1].price)
    /\ NonNegative(emitted[1].value)
    /\ NonNegative(emitted[1].owned)

\* C26 as stated: the value of an emitted trade is the product of its own
\* qty and its own price columns, rounded to an integer.
C26_ValueIsQtyTimesPrice ==
  (normPc = "done" /\ emitted # <<>>) =>
    emitted[1].value = MathRound(Times(emitted[1].qty, emitted[1].price))

\* The calendar quarter immediately before the one of a date, counting
\* quarters from year 0.
QuarterBefore(date) ==
  LET i == (4 * date.year) + ((date.month - 1) \div 3) - 1
  IN  <<i \div 4, (i % 4) + 1>>

\* C27: a scheduler tick removes from sync_log at most the key of the
\* calendar quarter immediately before the current one, which is the first
\* quarter of getQuarters(1), and leaves every other key in place.
C27_TickDeletesOnlyLastQuarter ==
  [][lastOp'.op \in {"tick-inproc", "tick-child"} =>
       /\ logKeys' = logKeys \ {QuarterBefore(today)}
       /\ QuarterBefore(today) = KeyOf(CalendarQuarters(today, 1)[1])]_vars

\* C27 witness: a tick in the first quarter of a year has deleted the key of
\* the fourth quarter of the year before and left another key in place.
C27_Witness ==
  /\ lastOp.op = "tick-child"
  /\ today.month <= 3
  /\ lastOp.deleted = {<<today.year - 1, 4>>}
  /\ logKeys # {}

C29_ForceReprocesses ==
  [][(pc = "check" /\ runHist'.attempted # runHist.attempted) =>
       (inv'.status = "skipped" <=> (~force /\ Synced(CurQ)))]_vars

\* C30: a run is in progress only with the running flag set, no step taken
\* while a run is in progress starts a run, and the quarters of a run are
\* processed one after the other in the order of getQuarters.
C30_OneRunAtATime ==
  [][/\ pc # "idle" => running
     /\ pc # "idle" =>
          ~(runHist' # runHist /\ runHist'.attempted = {} /\ runHist'.fails = {})
     /\ (pc # "idle" /\ pc' # "idle") =>
          /\ numQ' = numQ
          /\ idx' = idx \/ (idx' = idx + 1 /\ pc' = "check")]_vars

\* C30 witness: the second quarter of a run is being processed after the
\* first was completed, with the running flag set.
C30_Witness ==
  /\ running
  /\ idx = 2
  /\ pc = "nd"
  /\ inv.stmts > 0
  /\ Synced(getQuarters(numQ)[1])

\* C31: the stages an invocation has finished are always an initial part of
\* fetch, submission, owner, non-derivative, derivative, in this order; the
\* stage in progress is the one that follows them; a row has been handed to
\* the insert statement only after the submission and the owner stage, and
\* the sync_log entry is written only after all five.
C31_StagesInOrder ==
  /\ Len(inv.stages) <= Len(AllStages)
  /\ inv.stages = SubSeq(AllStages, 1, Len(inv.stages))
  /\ pc \in {"fetch", "sub", "owner", "nd", "d"} => pc = AllStages[Len(inv.stages) + 1]
  /\ pc = "log" => inv.stages = AllStages
  /\ inv.stmts > 0 => Len(inv.stages) >= 3
  /\ inv.logWrites > 0 => inv.stages = AllStages

\* C31 witness: rows of the non-derivative table are being inserted, with
\* fetch, submission and owner stage finished and the derivative stage and
\* the entry still to come.
C31_Witness ==
  /\ pc = "nd"
  /\ inv.stmts > 0
  /\ inv.stages = <<"fetch", "sub", "owner">>
  /\ inv.logWrites = 0

\* The steps of a run, and how far a run has come: the index of the quarter,
\* the stage of its invocation and the position in the table being inserted.
RunStep ==
  \/ QCheck
  \/ \E o \in {"ok", "http", "neterr"} : QFetch(o)
  \/ QSubmission
  \/ QOwner
  \/ \E t \in {"nd", "d"}, wr \in {"ok", "error"} : QTable(t, wr)
  \/ \E wr \in {"ok", "error"} : QLog(wr)
StageIndex(p) ==
  CASE p = "check" -> 0 [] p = "fetch" -> 1 [] p = "sub" -> 2 [] p = "owner" -> 3
    [] p = "nd" -> 4 [] p = "d" -> 5 [] p = "log" -> 6 [] OTHER -> 7
RunMoves == pc' # pc \/ idx' # idx \/ pos' # pos \/ inv' # inv
RunAhead ==
  \/ idx' > idx
  \/ idx' = idx /\ StageIndex(pc') > StageIndex(pc)
  \/ idx' = idx /\ pc' = pc /\ pos' > pos

\* C38: the running flag is set exactly in the states in which a run is in
\* progress; a run in progress can always take a step, and each of its steps
\* either ends the run with the flag cleared - after the last quarter, on an
\* exception or when the process ends - or brings it further in its finite
\* list of quarters, stages and batches; and whenever the flag is clear a
\* request can start a run.
C38_RunningFlagFollowsRun ==
  [][/\ running <=> pc # "idle"
     /\ running' <=> pc' # "idle"
     /\ pc # "idle" => ENABLED RunStep
     /\ (pc # "idle" /\ RunMoves) => ((pc' = "idle" /\ ~running') \/ RunAhead)
     /\ (pc # "idle" /\ pc' # "idle") => idx' <= numQ /\ pos' <= Len(inv'.zipBuf.nd.rows) + Len(inv'.zipBuf.d.rows)
     /\ ~running => ENABLED TriggerSync(1, FALSE)]_vars

\* C38 witness: a run that ended with an exception has left the flag clear.
C38_Witness ==
  /\ ~running
  /\ pc = "idle"
  /\ inv.status = "failed"
  /\ runHist.fails # {}

\* C39 as stated: a step that deletes the sync_log entry of a quarter is the
\* start of a run that has this quarter among its targets, also when the
\* timer fires while a run is in progress.
C39_TickDeletionStartsRun ==
  [][(DOMAIN syncLog \ DOMAIN syncLog') # {} =>
       /\ pc' = "check"
       /\ running'
       /\ runHist'.attempted = {}
       /\ runHist'.deleted = DOMAIN syncLog \ DOMAIN syncLog'
       /\ runHist'.deleted \subseteq {getQuarters(numQ')[i] : i \in 1..numQ'}]_vars

\* Quarters counted from year 0.
QuarterIndex(yq) == (4 * yq.year) + yq.q - 1
CurrentIndex(date) == (4 * date.year) + ((date.month - 1) \div 3)

\* C33: at every date and for every n from 0, getQuarters(n) has n elements,
\* each with a quarter in 1..4, and its i-th element is the calendar quarter
\* i quarters before the current one: they are distinct, consecutive and
\* descending, the year goes down by one from Q1 to Q4, and the current
\* quarter is not among them.
C33_GetQuartersCalendar ==
  today # <<>> =>
    \A n \in 0..MaxQuartersBack :
      LET out == CalendarQuarters(today, n)
      IN  /\ Len(out) = n
          /\ \A i \in 1..n :
               /\ out[i].q \in 1..4
               /\ QuarterIndex(out[i]) = CurrentIndex(today) - i
          /\ \A i \in 1..(n - 1) :
               IF out[i].q = 1
                 THEN out[i + 1].q = 4 /\ out[i + 1].year = out[i].year - 1
                 ELSE out[i + 1].q = out[i].q - 1 /\ out[i + 1].year = out[i].year

\* C33 witness: in the first quarter of a year a run over getQuarters(2) has
\* written the keys of the fourth and the third quarter of the year before.
C33_Witness ==
  /\ today # <<>>
  /\ today.month <= 3
  /\ lastOp.op = "run"
  /\ {<<today.year - 1, 4>>, <<today.year - 1, 3>>} \subseteq logKeys
  /\ <<today.year, 1>> \notin logKeys

\* The entries a well-formed buffer is made of, the offset of its i-th entry
\* and the entries whose base name starts with the prefix.
EntriesOf(buf) == CHOOSE es \in EntryLists : Flatten(es) \o Trailer = buf
OffsetOf(es, i) == Len(Flatten(SubSeq(es, 1, i - 1)))
Matching(es, prefix) == {i \in 1..Len(es) : NameMatches(es[i].name, prefix)}

\* C34: on a buffer of well-formed entries the cursor only stands on the
\* start of an entry not behind the first matching one, or behind the last
\* entry; the call returns the lines of the first entry in buffer order whose
\* base name starts with the prefix, and null when there is none, also when
\* an earlier entry's name contains the prefix further in or its data holds
\* the bytes of a signature.
C34_FirstPrefixMatchWins ==
  zipBuf \in WellFormedZips =>
    LET es    == EntriesOf(zipBuf)
        m     == Matching(es, target)
        first == CHOOSE i \in m : \A j \in m : i <= j
    IN  /\ exRet = "running" =>
             \/ \E i \in 1..Len(es) : exPos = OffsetOf(es, i) /\ \A j \in m : i <= j
             \/ (m = {} /\ exPos >= Len(Flatten(es)))
        /\ ExtractEnded =>
             IF m = {} THEN exRet = "null"
             ELSE exRet = "lines" /\ exPos = OffsetOf(es, first)

\* C34 witness: the call for "nd" has returned the lines of "d/Nd1", the
\* second entry, behind "xnd" and before "ND2".
C34_Witness ==
  /\ zipBuf = Flatten(<<EntryXnd, EntryNd1, EntryNd2>>) \o Trailer
  /\ target = <<110, 100>>
  /\ exRet = "lines"
  /\ exPos = Len(EntryBytes(EntryXnd))

\* The tables whose line array is non-empty.
NonEmptyArrays == {k \in DOMAIN mem.held : mem.held[k] > 0}

\* C32: while a quarter is processed at most one table's line array is
\* non-empty; when a table is about to be extracted every array is empty,
\* and while a table is worked on only its own array holds lines.
C32_OneLineArrayAtATime ==
  mem.pc # <<>> =>
    /\ Cardinality(NonEmptyArrays) <= 1
    /\ mem.pc[2] \in {"extract", "log"} => NonEmptyArrays = {}
    /\ mem.pc[2] \in {"produce", "truncate", "failed"} => NonEmptyArrays \subseteq {mem.pc[1]}

\* C32 witness: the lines of the derivative table are in memory, after three
\* tables that had lines were extracted and truncated.
C32_Witness ==
  /\ mem.pc = <<4, "produce">>
  /\ mem.held[4] = 3
  /\ \A k \in 1..3 : mem.tables[k] > 0 /\ mem.held[k] = 0

\* The lines after the first that hold a character other than white space,
\* and the k-th of them.
NonBlankLines(lines) ==
  {i \in 2..Len(lines) : \E j \in 1..Len(lines[i]) : lines[i][j] \notin Whitespace}
RECURSIVE KthOf(_, _)
KthOf(set, k) ==
  LET least == CHOOSE i \in set : \A j \in set : i <= j
  IN  IF k = 1 THEN least ELSE KthOf(set \ {least}, k - 1)

\* C35: a finished call of tsvRows has yielded one record for each non-blank
\* line after the first, in line order; the keys of every record are the
\* trimmed, upper-cased cells of the first line; the value of a key is the
\* trimmed cell of its column, the empty string when the line has no such
\* column, and cells beyond the header are dropped; a second call on the same
\* lines yields the same sequence.
C35_RowsFollowHeader ==
  tsv.pc = "done" =>
    LET lines == tsv.lines
        nb    == IF lines = <<>> THEN {} ELSE NonBlankLines(lines)
        hdr   == IF lines = <<>> THEN <<>> ELSE SplitTabs(lines[1])
        keyAt == [j \in 1..Len(hdr) |-> ToUpperCase(Trim(hdr[j]))]
    IN  /\ Len(tsv.out) = Cardinality(nb)
        /\ \A k \in 1..Len(tsv.out) :
             LET cells == SplitTabs(lines[KthOf(nb, k)])
             IN  /\ DOMAIN tsv.out[k] = {keyAt[j] : j \in 1..Len(hdr)}
                 /\ \A j \in 1..Len(hdr) :
                      (\A d \in (j + 1)..Len(hdr) : keyAt[d] # keyAt[j]) =>
                        tsv.out[k][keyAt[j]] =
                          (IF j <= Len(cells) THEN Trim(cells[j]) ELSE <<>>)
        /\ tsv.prev # <<>> => tsv.out = tsv.prev[1]

\* C35 witness: under a header of two columns a blank line was skipped and a
\* line of three cells has given the record B -> "y", A -> "x", for the
\* second time.
C35_Witness ==
  /\ tsv.pc = "done"
  /\ tsv.prev # <<>>
  /\ tsv.lines = << <<" ", "a", "\t", "B", " ">>, <<" ", "\r">>,
                    <<"x", "\t", "y", "\t", "z">> >>
  /\ Len(tsv.out) = 1
  /\ tsv.out[1][<<"B">>] = <<"y">>
  /\ tsv.out[1][<<"A">>] = <<"x">>

\* The requests that were dequeued and whose promise has not settled.
Unsettled == throttle.timers \cup throttle.inflight
SettledIds == {p[1] : p \in throttle.settled}

\* C36: the count of requests dequeued and not yet settled, active, is the
\* number of such requests and lies between 0 and MAX_CONCURRENT in every
\* state of every interleaving of enqueues, timers, successes and failures.
C36_ActiveWithinWindow ==
  /\ throttle.active \in 0..MAX_CONCURRENT
  /\ throttle.active = Cardinality(Unsettled)
  /\ throttle.timers \cap throttle.inflight = {}

\* C36 witness: a request that waited behind a full window has been dequeued
\* after a failure, and the window is full again.
C36_Witness ==
  /\ throttle.active = MAX_CONCURRENT
  /\ \E id \in throttle.waited : id \in Unsettled
  /\ \E p \in throttle.settled : p[2] = "rejected"

\* Requests leave the queue in the order of their throttledGet calls, and no
\* promise is settled twice or while its request still waits or runs.
FifoAndOnce ==
  /\ throttle.dequeued \o throttle.queue = [k \in 1..throttle.enqueued |-> k]
  /\ Cardinality(SettledIds) = throttle.settles
  /\ SettledIds \cap Unsettled = {}
  /\ SettledIds \cup Unsettled = {throttle.dequeued[k] : k \in 1..Len(throttle.dequeued)}

C40_RecordedOnlyWhenComplete ==
  \A r \in daily.recorded :
    \A k \in DOMAIN r.outcomes : r.outcomes[k] \in {"inserted", "norows"}

====
